---- MODULE Spec2Model ----
(***************************************************************************)
(* Model of the EPO publication-server scraper                             *)
(* (src/datasets/epo-publication-server/scraper_epo_pub_server.py):        *)
(* the SQLite tracking store (class EPODatabase) and the scrape            *)
(* coordinators (EPOScraper.scrape_claims / scrape_xml).                   *)
(*                                                                         *)
(* The documents table is a set of rows; the PRIMARY KEY on url is not     *)
(* built into the representation, it is what INSERT OR IGNORE enforces.    *)
(* TEXT values that the code compares (dates) are sequences of digits      *)
(* compared the way SQLite compares TEXT, byte by byte.                    *)
(***************************************************************************)
EXTENDS Integers, Sequences, FiniteSets, TLC

VARIABLES
    server,        \* server[date]: the document links the remote server lists for the date
    documents,     \* rows of the documents table (committed state)
    clock,         \* the value CURRENT_TIMESTAMP yields
    running,       \* running[mode]: a scrape run of that mode is in progress
    pending_docs,  \* pending_docs[mode]: the list the run loaded
    pc,            \* pc[mode]: per loaded document, where its worker stands
    claims_files,  \* claims_files[date]: lines of {output_dir}/{date}.jsonl
    xml_files,     \* files {output_dir}/{date}/{doc_index}.xml
    crashes,       \* number of scrape runs killed so far
    conn,          \* conn[p]: the connection of discovery process p inside add_documents
    rerun,         \* the date range of the repeated scrape command, and the runs ended
    file_locks,    \* self._file_locks and who holds each lock, and self._global_lock
    request,       \* the _get_response call in progress and what the server does
    schema,        \* the columns and indexes of the documents table in the database file
    dates_table,   \* rows of the dates table
    exited,        \* the last command run as a process: what it met and its exit status
    extraction,    \* the body handed to _extract_claims_json last and what it returned
    interrupted,   \* interrupted[mode]: the run of the mode received KeyboardInterrupt
    discovery,     \* the discover command in progress: its position and its local variables
    other_run      \* a second scrape claims process on the same store: its list and its workers

vars == <<server, documents, clock, running, pending_docs, pc, claims_files, xml_files,
          crashes, conn, rerun, file_locks, request, schema,
          dates_table, exited, extraction, interrupted, discovery, other_run>>

\* the state that only the specifications written for it change
\* the state of the commands taken as processes, of one extraction, of an interrupt
commands == <<dates_table, exited, extraction, interrupted, discovery, other_run>>

others == <<rerun, file_locks, request, schema, commands>>

----------------------------------------------------------------------------
(* Bounds of the model. *)

\* longest list handed to one add_documents call
MaxBatch == 2
\* add_documents is not called once a date's MAX(doc_index) would pass this
MaxIndex == 3
\* size of the ThreadPoolExecutor of a scrape run (--max-workers)
MaxWorkers == 2
\* number of scrape runs that are killed before they end
MaxCrashes == 1
\* number of times the same scrape claims command is run after one discovery
MaxRuns == 2
\* number of claim elements of a document handed to _extract_claims_json
MaxClaims == 2
\* number of attempts of a request whose outcome the server varies; from the
\* last of them on, an attempt meets the same outcome
MaxScript == 3

\* number of characters of a segment of a link of the page of dates
MaxText == 2

----------------------------------------------------------------------------
(* Values. *)

\* publication dates as TEXT, one digit per character ("09", "10")
Dates == {<<0, 9>>, <<1, 0>>}

\* a start_date / end_date argument that is None or '' (both falsy in Python)
NoDate == <<>>

Modes == {"claims", "xml"}

\* SQL NULL in a TEXT column
Null == "NULL"

\* the values of CURRENT_TIMESTAMP: an earlier and a later second
Times == {1, 2}

\* SQL NULL in a TIMESTAMP column
NullTime == 0

\* doc_id = href.split('/')[-2]; the url is base + href + "/document.xml",
\* so the doc_id is a function of the url
DocIdOf(url) == <<"id", url>>

\* a dict of the list handed to add_documents
Doc(url, date) == [url |-> url, date |-> date, doc_id |-> DocIdOf(url)]

\* the lists add_documents is called with in SpecStore: any list of up to
\* MaxBatch documents, a url may repeat and may come with either date
StoreUrls == {"u1", "u2"}

Batches == UNION {[1..n -> {Doc(u, d) : u \in StoreUrls, d \in Dates}] : n \in 1..MaxBatch}

\* what the remote server may publish: per date, the links of
\* /publication-dates/{date}/patents that end with the suffix, in page order;
\* two documents of one date, or one document on each of two dates
Listings ==
    {[d \in Dates |-> IF d = <<0, 9>> THEN <<"u1", "u2">> ELSE <<>>],
     [d \in Dates |-> IF d = <<0, 9>> THEN <<"u2">> ELSE <<"u1">>]}

Listing(date) == server[date]

\* datetime.strptime(date_str, '%Y%m%d') as a number of days
DateValue(date) == 10 * date[1] + date[2]

----------------------------------------------------------------------------
(* SQLite TEXT comparison (BINARY collation: memcmp, then length). *)

RECURSIVE TextLess(_, _)
TextLess(a, b) ==
    IF b = <<>> THEN FALSE
    ELSE IF a = <<>> THEN TRUE
    ELSE IF Head(a) # Head(b) THEN Head(a) < Head(b)
    ELSE TextLess(Tail(a), Tail(b))

TextLeq(a, b) == a = b \/ TextLess(a, b)

----------------------------------------------------------------------------
(* EPODatabase.add_documents *)

\* COALESCE(MAX(doc_index), 0) FROM documents WHERE date = ?
MaxDocIndex(table, date) ==
    LET idx == {r.doc_index : r \in {x \in table : x.date = date}}
    IN IF idx = {} THEN 0 ELSE CHOOSE m \in idx : \A i \in idx : i <= m

\* the row an INSERT INTO documents (url, date, doc_id, doc_index) creates:
\* the other columns take their defaults
NewRow(doc, i, now) ==
    [url |-> doc.url, date |-> doc.date, doc_id |-> doc.doc_id, doc_index |-> i,
     discovered_at |-> now,
     claims_status |-> "pending", claims_error |-> Null, claims_processed_at |-> NullTime,
     xml_status |-> "pending", xml_error |-> Null, xml_processed_at |-> NullTime]

\* INSERT without a conflict clause that would not see the stored url
InsertAlways(table, doc, i, now) == table \cup {NewRow(doc, i, now)}

\* INSERT OR IGNORE: a row whose url (PRIMARY KEY) is stored is not inserted
InsertOrIgnore(table, doc, i, now) ==
    IF \E r \in table : r.url = doc.url THEN table
    ELSE table \cup {NewRow(doc, i, now)}

\* for i, doc in enumerate(date_docs, start=...): INSERT OR IGNORE
RECURSIVE InsertDocs(_, _, _, _)
InsertDocs(table, date_docs, i, now) ==
    IF date_docs = <<>> THEN table
    ELSE InsertDocs(InsertOrIgnore(table, Head(date_docs), i, now),
                    Tail(date_docs), i + 1, now)

\* keys of by_date in insertion order: the dates of the batch, first occurrence first
RECURSIVE GroupDates(_)
GroupDates(batch) ==
    IF batch = <<>> THEN <<>>
    ELSE LET d == Head(batch).date
         IN <<d>> \o GroupDates(SelectSeq(Tail(batch), LAMBDA x : x.date # d))

\* by_date[date]
DateDocs(batch, date) == SelectSeq(batch, LAMBDA x : x.date = date)

\* enumerate(date_docs, start=max_index) : numbering that starts at the stored maximum
StartIndexAtMax(max_index) == max_index

\* enumerate(date_docs, start=1): numbering that starts anew in every batch
StartIndexAnew(max_index) == 1

\* enumerate(date_docs, start=max_index + 1)
StartIndex(max_index) == max_index + 1

\* for date, date_docs in by_date.items(): read the maximum, insert the documents
RECURSIVE AddByDate(_, _, _, _)
AddByDate(table, dates, batch, now) ==
    IF dates = <<>> THEN table
    ELSE LET date == Head(dates)
             max_index == MaxDocIndex(table, date)
         IN AddByDate(InsertDocs(table, DateDocs(batch, date), StartIndex(max_index), now),
                      Tail(dates), batch, now)

add_documents(table, batch, now) == AddByDate(table, GroupDates(batch), batch, now)

----------------------------------------------------------------------------
(* EPODatabase.add_dates *)

\* the row an INSERT INTO dates (date) creates: the other columns take their defaults
NewDate(date, now) == [date |-> date, discovered_at |-> now, status |-> "pending"]

\* INSERT OR REPLACE: the stored row of the date is deleted and a new one inserted
InsertOrReplaceDate(table, date, now) ==
    {r \in table : r.date # date} \cup {NewDate(date, now)}

\* INSERT OR IGNORE: a row whose date (PRIMARY KEY) is stored is not inserted
InsertOrIgnoreDate(table, date, now) ==
    IF \E r \in table : r.date = date THEN table
    ELSE table \cup {NewDate(date, now)}

\* a discover command that does not persist its dates
SkipDates(table, list, now) == table

\* conn.executemany("INSERT OR IGNORE INTO dates (date) VALUES (?)", ...)
RECURSIVE add_dates(_, _, _)
add_dates(table, list, now) ==
    IF list = <<>> THEN table
    ELSE add_dates(InsertOrIgnoreDate(table, Head(list), now), Tail(list), now)

----------------------------------------------------------------------------
(* EPODatabase.get_pending_documents *)

StatusOf(r, mode) == IF mode = "claims" THEN r.claims_status ELSE r.xml_status

ErrorOf(r, mode) == IF mode = "claims" THEN r.claims_error ELSE r.xml_error

ProcessedAtOf(r, mode) ==
    IF mode = "claims" THEN r.claims_processed_at ELSE r.xml_processed_at

\* SELECT url, date, doc_id, doc_index
Selected(r) == [url |-> r.url, date |-> r.date, doc_id |-> r.doc_id, doc_index |-> r.doc_index]

\* WHERE {status_col} != 'completed'
WhereNotCompleted(r, mode, start_date, end_date) ==
    /\ StatusOf(r, mode) # "completed"
    /\ (start_date # NoDate => TextLeq(start_date, r.date))
    /\ (end_date # NoDate => TextLeq(r.date, end_date))

\* WHERE {status_col} = 'pending' AND date > ? AND date < ?
WhereExclusive(r, mode, start_date, end_date) ==
    /\ StatusOf(r, mode) = "pending"
    /\ (start_date # NoDate => TextLess(start_date, r.date))
    /\ (end_date # NoDate => TextLess(r.date, end_date))

\* WHERE {status_col} = 'pending' [AND date >= ?] [AND date <= ?]
Where(r, mode, start_date, end_date) ==
    /\ StatusOf(r, mode) = "pending"
    /\ (start_date # NoDate => TextLeq(start_date, r.date))
    /\ (end_date # NoDate => TextLeq(r.date, end_date))

\* ORDER BY doc_index, date
RowBeforeByIndex(a, b) ==
    \/ a.doc_index < b.doc_index
    \/ a.doc_index = b.doc_index /\ TextLess(a.date, b.date)

\* ORDER BY date, doc_index
RowBefore(a, b) ==
    \/ TextLess(a.date, b.date)
    \/ a.date = b.date /\ a.doc_index < b.doc_index

\* the rows of S as a list in ORDER BY order (rows that tie are listed in some order)
RECURSIVE OrderBy(_)
OrderBy(S) ==
    IF S = {} THEN <<>>
    ELSE LET first == CHOOSE x \in S : \A y \in S : ~RowBefore(y, x)
         IN <<first>> \o OrderBy(S \ {first})

get_pending_documents(table, mode, start_date, end_date) ==
    OrderBy({Selected(r) : r \in {x \in table : Where(x, mode, start_date, end_date)}})

----------------------------------------------------------------------------
(* EPODatabase.mark_document_processed *)

\* an UPDATE that sets the status column of the mode alone
SetStatusOnly(r, mode, status, error, now) ==
    IF mode = "claims" THEN [r EXCEPT !.claims_status = status]
    ELSE [r EXCEPT !.xml_status = status]

\* an UPDATE that sets the columns of both modes
SetBothTracks(r, mode, status, error, now) ==
    [r EXCEPT !.claims_status = status, !.claims_error = error,
              !.claims_processed_at = now,
              !.xml_status = status, !.xml_error = error, !.xml_processed_at = now]

\* SET claims_status = ?, claims_error = ?, claims_processed_at = CURRENT_TIMESTAMP
\* (for 'xml': the xml_ columns)
SetTrack(r, mode, status, error, now) ==
    IF mode = "claims"
    THEN [r EXCEPT !.claims_status = status, !.claims_error = error,
                   !.claims_processed_at = now]
    ELSE [r EXCEPT !.xml_status = status, !.xml_error = error,
                   !.xml_processed_at = now]

\* UPDATE documents SET ... WHERE url = ?
mark_document_processed(table, url, mode, status, error, now) ==
    {IF r.url = url THEN SetTrack(r, mode, status, error, now) ELSE r : r \in table}

----------------------------------------------------------------------------
(* EPOScraper.scrape_claims / scrape_xml: one run per mode, a pool of      *)
(* MaxWorkers threads that take the loaded documents in submission order.  *)
(* pc[mode][k] is the position of the worker of pending_docs[mode][k]:     *)
(*   queued       submitted, process_document not begun                    *)
(*   no_response  _get_response returned None                              *)
(*   has_claims   response fetched, _extract_claims_json yields a record   *)
(*   no_claims    response fetched, _extract_claims_json yields None       *)
(*   response     response fetched (xml mode)                              *)
(*   written      the output was written                                   *)
(*   write_error  the output write raised                                  *)
(*   done         process_document returned                                *)
(*   raised       process_document raised (logged by the run's loop)       *)
(***************************************************************************)

Terminal == {"done", "raised"}

InFlight(mode) ==
    {k \in DOMAIN pc[mode] : pc[mode][k] \notin Terminal \cup {"queued"}}

\* a pool thread is free and every document submitted earlier was taken
CanStart(mode, k) ==
    /\ running[mode]
    /\ k \in DOMAIN pc[mode]
    /\ pc[mode][k] = "queued"
    /\ \A j \in 1..(k - 1) : pc[mode][j] # "queued"
    /\ Cardinality(InFlight(mode)) < MaxWorkers

At(mode, k, where) ==
    /\ running[mode]
    /\ k \in DOMAIN pc[mode]
    /\ pc[mode][k] = where

Goto(mode, k, where) == pc' = [pc EXCEPT ![mode][k] = where]

\* the error text recorded when _get_response returned None
FetchErrorText == "HTTP request failed"

\* the status recorded when _get_response returned None, were it 'completed'
FetchFailedStatusCompleted == "completed"

\* db.mark_document_processed(doc['url'], mode, 'failed', 'HTTP request failed')
FetchFailedStatus == "failed"

\* a write that leaves the file as it was
AppendNothing(files, doc) == files

\* f.write(json.dumps(claims_data) + '\n') on {date}.jsonl opened in append mode;
\* the line is identified by the document it was extracted from
AppendLine(files, doc) == [files EXCEPT ![doc.date] = Append(@, doc.url)]

\* a write that creates no file
WriteNoFile(files, doc) == files

\* open(date_dir / f"{doc_index}.xml", 'wb').write(response.content):
\* the file at that path now holds this document's bytes
WriteFile(files, doc) ==
    {f \in files : ~(f.date = doc.date /\ f.doc_index = doc.doc_index)}
        \cup {[date |-> doc.date, doc_index |-> doc.doc_index, content |-> doc.url]}

----------------------------------------------------------------------------
(* EPOScraper._extract_claims_json.  A str is a sequence of characters.  A  *)
(* response body is what the recovering parser makes of it:                *)
(*   root "error"    etree.fromstring raises (caught: the call returns None)*)
(*   root "none"     etree.fromstring returns None: the bytes hold no      *)
(*                   element (recover=True reports no error then)          *)
(*   root "element"  a tree; country, number, kind are the values of the   *)
(*                   root's attributes ('' when absent), claims the claim  *)
(*                   elements in document order, each with the lang of its *)
(*                   claims block, its num and texts: the elements that    *)
(*                   './/claim-text' finds in it, in document order, each  *)
(*                   the list of the text nodes './/text()' finds in it;   *)
(*                   nested holds the positions in texts of the claim-text *)
(*                   elements that stand inside another claim-text (their  *)
(*                   text nodes are text nodes of the outer element too)   *)
(***************************************************************************)

WhiteSpace == {" ", "\n"}

RECURSIVE LStrip(_)
LStrip(s) == IF s # <<>> /\ Head(s) \in WhiteSpace THEN LStrip(Tail(s)) ELSE s

RECURSIVE RStrip(_)
RStrip(s) ==
    IF s # <<>> /\ s[Len(s)] \in WhiteSpace THEN RStrip(SubSeq(s, 1, Len(s) - 1)) ELSE s

\* str.strip()
Strip(s) == RStrip(LStrip(s))

\* str.lstrip('0')
RECURSIVE LStripZeros(_)
LStripZeros(s) == IF s # <<>> /\ Head(s) = "0" THEN LStripZeros(Tail(s)) ELSE s

\* sep.join(parts)
RECURSIVE Join(_, _)
Join(sep, parts) ==
    IF parts = <<>> THEN <<>>
    ELSE IF Len(parts) = 1 THEN parts[1]
    ELSE parts[1] \o sep \o Join(sep, Tail(parts))

\* [s.strip() for s in ctext.xpath('.//text()') if s and s.strip()]
RECURSIVE StrippedNodes(_)
StrippedNodes(ctext) ==
    IF ctext = <<>> THEN <<>>
    ELSE (IF Strip(Head(ctext)) # <<>> THEN <<Strip(Head(ctext))>> ELSE <<>>)
             \o StrippedNodes(Tail(ctext))

\* text_content = " ".join(...)
TextContent(ctext) == Join(<<" ">>, StrippedNodes(ctext))

\* texts: the text contents of the claim's claim-text elements that are not empty
RECURSIVE Texts(_)
Texts(ctexts) ==
    IF ctexts = <<>> THEN <<>>
    ELSE (IF TextContent(Head(ctexts)) # <<>> THEN <<TextContent(Head(ctexts))>> ELSE <<>>)
             \o Texts(Tail(ctexts))

\* claim_text = "\n".join(texts)
ClaimText(claim) == Join(<<"\n">>, Texts(claim.texts))

\* pn = f"{country}{number}{kind}".strip()
PatentNumber(body) == Strip(body.country \o body.number \o body.kind)

\* root.xpath('//claims[@lang="en"]//claim')
EnglishClaims(body) == SelectSeq(body.claims, LAMBDA c : c.lang = "en")

\* claims_dict after the loop over the claims: a later claim of the same num
\* replaces the earlier one
RECURSIVE ClaimsDict(_, _)
ClaimsDict(claims, dict) ==
    IF claims = <<>> THEN dict
    ELSE LET claim == Head(claims)
             num == LStripZeros(claim.num)
             text == ClaimText(claim)
         IN IF num = <<>> \/ text = <<>>
            THEN ClaimsDict(Tail(claims), dict)
            ELSE ClaimsDict(Tail(claims),
                     [n \in DOMAIN dict \cup {num} |->
                         IF n = num THEN Strip(text) ELSE dict[n]])

\* what the call yields: None, a record {"pn", "c"}, or an exception that leaves it
NoRecord == [outcome |-> "none", pn |-> <<>>, c |-> <<>>]

_extract_claims_json(body) ==
    IF body.root = "error" THEN NoRecord
    ELSE IF body.root = "none" THEN [NoRecord EXCEPT !.outcome = "raised"]
    ELSE IF PatentNumber(body) = <<>> THEN NoRecord
    ELSE LET claims_dict == ClaimsDict(EnglishClaims(body), <<>>)
         IN IF DOMAIN claims_dict = {} THEN NoRecord
            ELSE [outcome |-> "record", pn |-> PatentNumber(body), c |-> claims_dict]

\* the response bodies the server answers a document request with
NoTree(root) == [root |-> root, country |-> <<>>, number |-> <<>>, kind |-> <<>>, claims |-> <<>>]

Claim(lang, num, texts) == [lang |-> lang, num |-> num, texts |-> texts, nested |-> {}]

\* a claim whose first claim-text contains the claim-text elements that follow
\* it, as in <claim-text>a<claim-text>b</claim-text></claim-text>
NestedClaim(lang, num, texts) ==
    [lang |-> lang, num |-> num, texts |-> texts, nested |-> 2..Len(texts)]

\* a claim-text element with one text node
Text(node) == <<node>>

Bodies ==
    {\* a B1 document with a German and an English claim 01, the English one
     \* with two claim-text elements, the first of two text nodes
     [root |-> "element", country |-> <<"E">>, number |-> <<"7">>, kind |-> <<"B">>,
      claims |-> <<Claim("de", <<"0", "1">>, <<Text(<<"x">>)>>),
                   Claim("en", <<"0", "1">>, << <<<<" ", "a">>, <<"\n">>>>, Text(<<"b">>)>>)>>],
     \* an English claim under a root without country, doc-number and kind
     [root |-> "element", country |-> <<>>, number |-> <<" ">>, kind |-> <<>>,
      claims |-> <<Claim("en", <<"0", "1">>, <<Text(<<"a">>)>>)>>],
     \* a document with no claims block in English
     [root |-> "element", country |-> <<"E">>, number |-> <<"7">>, kind |-> <<"B">>,
      claims |-> <<Claim("de", <<"0", "1">>, <<Text(<<"x">>)>>)>>],
     \* an English claims block whose claims carry no num or no text
     [root |-> "element", country |-> <<"E">>, number |-> <<"7">>, kind |-> <<"B">>,
      claims |-> <<Claim("en", <<"0">>, <<Text(<<"a">>)>>),
                   Claim("en", <<"2">>, <<Text(<<" ">>)>>)>>],
     \* bytes the parser raises on, and bytes it finds no element in
     NoTree("error"),
     NoTree("none")}

\* the claims the documents of Trees are built from
ClaimSamples ==
    {Claim("de", <<"0", "1">>, <<Text(<<"x">>)>>),
     Claim("en", <<"0", "1">>, << <<<<" ", "a">>, <<"\n">>>>, Text(<<"b">>)>>),
     Claim("en", <<"2">>, <<Text(<<"c", " ">>)>>),
     Claim("en", <<"0">>, <<Text(<<"a">>)>>),
     Claim("en", <<"3">>, <<Text(<<" ">>)>>),
     \* <claim num="4"><claim-text>a<claim-text>b</claim-text></claim-text></claim>
     NestedClaim("en", <<"4">>, << <<<<"a">>, <<"b">>>>, Text(<<"b">>)>>)}

\* documents of up to MaxClaims claims, with or without country and kind
Trees ==
    {[root |-> "element", country |-> country, number |-> <<"7">>, kind |-> kind,
      claims |-> claims] :
        country \in {<<>>, <<"E">>}, kind \in {<<>>, <<"B">>},
        claims \in UNION {[1..n -> ClaimSamples] : n \in 0..MaxClaims}}

\* claims_data = self._extract_claims_json(response.content), for any body
ExtractClaims ==
    \E body \in Bodies \cup Trees :
        /\ extraction' = [body |-> body, result |-> _extract_claims_json(body),
                          called |-> TRUE]
        /\ UNCHANGED <<server, documents, clock, running, pending_docs, pc, claims_files,
                       xml_files, crashes, conn, rerun, file_locks, request, schema,
                       dates_table, exited, interrupted, discovery, other_run>>

\* where process_document stands after the fetch returned the body
ClaimsOutcome(body) ==
    LET claims_data == _extract_claims_json(body)
    IN IF claims_data.outcome = "raised" THEN "raised"
       ELSE IF claims_data.outcome = "none" THEN "no_claims"
       ELSE "has_claims"

\* where process_document can stand after response = self._get_response(...)
FetchOutcomes(mode) ==
    IF mode = "claims" THEN {"no_response"} \cup {ClaimsOutcome(body) : body \in Bodies}
    ELSE {"no_response", "response"}

\* the note and the status recorded when _extract_claims_json returned None
NoClaimsNote == "No claims found"

NoClaimsStatusFailed == "failed"

NoClaimsStatus == "completed"

----------------------------------------------------------------------------
(* The discover command (main): discover_dates, discover_documents, add_documents *)

\* discover_dates: the server's dates d with start_dt <= d <= end_dt
InRange(start_date, end_date) ==
    {d \in Dates : DateValue(start_date) <= DateValue(d) /\ DateValue(d) <= DateValue(end_date)}

\* process_date(date): the documents of the date's page, [] when its fetch failed
ProcessDate(date, fetched) ==
    IF fetched THEN [k \in 1..Len(Listing(date)) |-> Doc(Listing(date)[k], date)] ELSE <<>>

\* all_documents: the lists of documents_by_date, in the order the futures completed
RECURSIVE AllDocuments(_, _)
AllDocuments(order, ok) ==
    IF order = <<>> THEN <<>>
    ELSE ProcessDate(Head(order), Head(order) \in ok) \o AllDocuments(Tail(order), ok)

\* the orders in which the futures of the dates in S can complete
Orders(S) ==
    {o \in [1..Cardinality(S) -> S] : \A i, j \in DOMAIN o : i # j => o[i] # o[j]}

----------------------------------------------------------------------------
(* Actions of the store and of the scrape runs. *)

Unscraped == UNCHANGED <<server, running, pending_docs, pc, claims_files, xml_files, crashes, conn, others>>

\* db.add_documents(documents) with any list, one call that runs alone
AddDocuments ==
    \E batch \in Batches :
        /\ \A d \in Dates : MaxDocIndex(documents, d) + Len(batch) <= MaxIndex
        /\ documents' = add_documents(documents, batch, clock)
        /\ UNCHANGED clock
        /\ Unscraped

\* the arguments (status, error) of the calls of mark_document_processed
MarkCalls(mode) ==
    {<<"failed", "HTTP request failed">>, <<"completed", Null>>, <<"failed", "OSError">>}
        \cup (IF mode = "claims" THEN {<<"completed", "No claims found">>} ELSE {})

\* a scrape worker's db.mark_document_processed(...) on a row its run loaded
\* as pending, with the arguments of one of the call sites
MarkDocumentProcessed ==
    \E mode \in Modes : \E r \in documents : \E call \in MarkCalls(mode) :
        /\ StatusOf(r, mode) = "pending"
        /\ documents' = mark_document_processed(documents, r.url, mode, call[1], call[2], clock)
        /\ UNCHANGED clock
        /\ Unscraped

\* time passes: CURRENT_TIMESTAMP advances by a second
Tick ==
    /\ clock + 1 \in Times
    /\ clock' = clock + 1
    /\ UNCHANGED documents
    /\ Unscraped

\* if all_documents: db.add_documents(all_documents)
AddAll(table, all_documents, now) ==
    IF all_documents # <<>> THEN add_documents(table, all_documents, now) ELSE table

\* the discover command: the dates in range, each date's page fetched or
\* not, the documents stored by one add_documents call
DiscoverStore ==
    \E start_date \in Dates, end_date \in Dates :
        \E order \in Orders(InRange(start_date, end_date)) :
            \E ok \in SUBSET InRange(start_date, end_date) :
                /\ order # <<>>
                /\ AllDocuments(order, ok) # <<>>
                /\ documents' = add_documents(documents, AllDocuments(order, ok), clock)

\* the discover command, run alone
Discover ==
    /\ DiscoverStore
    /\ UNCHANGED clock
    /\ Unscraped

\* pending_docs = db.get_pending_documents(mode, start_date, end_date), and
\* futures = [executor.submit(process_document, doc) for doc in pending_docs]
LoadRun(mode, start_date, end_date) ==
    /\ running' = [running EXCEPT ![mode] = TRUE]
    /\ pending_docs' = [pending_docs EXCEPT ![mode] =
           get_pending_documents(documents, mode, start_date, end_date)]
    /\ pc' = [pc EXCEPT ![mode] = [k \in 1..Len(pending_docs'[mode]) |-> "queued"]]

Load(mode, start_date, end_date) ==
    /\ LoadRun(mode, start_date, end_date)
    /\ UNCHANGED <<server, documents, clock, claims_files, xml_files, crashes, conn, others>>

\* the scrape command, started when no scrape run is in progress
ScrapeStart ==
    \E mode \in Modes, start_date \in Dates \cup {NoDate}, end_date \in Dates \cup {NoDate} :
        /\ \A m \in Modes : ~running[m]
        /\ Load(mode, start_date, end_date)

\* the scrape command, started while a run of the other mode may be in progress
ScrapeStartBeside ==
    \E mode \in Modes, start_date \in Dates \cup {NoDate}, end_date \in Dates \cup {NoDate} :
        /\ ~running[mode]
        /\ Load(mode, start_date, end_date)

\* response = self._get_response(doc['url']); in claims mode also
\* claims_data = self._extract_claims_json(response.content)
Fetch ==
    \E mode \in Modes : \E k \in DOMAIN pc[mode] :
        /\ CanStart(mode, k)
        /\ \E outcome \in FetchOutcomes(mode) : Goto(mode, k, outcome)
        /\ UNCHANGED <<server, documents, clock, running, pending_docs, claims_files, xml_files, crashes, conn, others>>

\* if not response: mark 'failed', return 0
MarkFetchFailed ==
    \E mode \in Modes : \E k \in DOMAIN pc[mode] :
        /\ At(mode, k, "no_response")
        /\ documents' = mark_document_processed(documents, pending_docs[mode][k].url,
                            mode, FetchFailedStatus, FetchErrorText, clock)
        /\ Goto(mode, k, "done")
        /\ UNCHANGED <<server, clock, running, pending_docs, claims_files, xml_files, crashes, conn, others>>

\* if not claims_data: mark 'completed' with the note, return 0
MarkNoClaims ==
    \E k \in DOMAIN pc["claims"] :
        /\ At("claims", k, "no_claims")
        /\ documents' = mark_document_processed(documents, pending_docs["claims"][k].url,
                            "claims", NoClaimsStatus, NoClaimsNote, clock)
        /\ Goto("claims", k, "done")
        /\ UNCHANGED <<server, clock, running, pending_docs, claims_files, xml_files, crashes, conn, others>>

\* with lock, open(output_file, 'a') as f: f.write(...)
WriteClaims ==
    \E k \in DOMAIN pc["claims"] :
        /\ At("claims", k, "has_claims")
        /\ claims_files' = AppendLine(claims_files, pending_docs["claims"][k])
        /\ Goto("claims", k, "written")
        /\ UNCHANGED <<server, documents, clock, running, pending_docs, xml_files, crashes, conn, others>>

\* date_dir.mkdir(exist_ok=True) raises: it stands outside the try block,
\* the exception leaves process_document
XmlMkdirError ==
    \E k \in DOMAIN pc["xml"] :
        /\ At("xml", k, "response")
        /\ Goto("xml", k, "raised")
        /\ UNCHANGED <<server, documents, clock, running, pending_docs, claims_files, xml_files, crashes, conn, others>>

\* with open(xml_file, 'wb') as f: f.write(response.content)
WriteXml ==
    \E k \in DOMAIN pc["xml"] :
        /\ At("xml", k, "response")
        /\ xml_files' = WriteFile(xml_files, pending_docs["xml"][k])
        /\ Goto("xml", k, "written")
        /\ UNCHANGED <<server, documents, clock, running, pending_docs, claims_files, crashes, conn, others>>

\* the open() of the output file raises (permission, disk full): except Exception as e
WriteError ==
    \E mode \in Modes : \E k \in DOMAIN pc[mode] :
        /\ At(mode, k, IF mode = "claims" THEN "has_claims" ELSE "response")
        /\ Goto(mode, k, "write_error")
        /\ UNCHANGED <<server, documents, clock, running, pending_docs, claims_files, xml_files, crashes, conn, others>>

\* db.mark_document_processed(doc['url'], mode, 'completed'); return 1
MarkCompleted ==
    \E mode \in Modes : \E k \in DOMAIN pc[mode] :
        /\ At(mode, k, "written")
        /\ documents' = mark_document_processed(documents, pending_docs[mode][k].url,
                            mode, "completed", Null, clock)
        /\ Goto(mode, k, "done")
        /\ UNCHANGED <<server, clock, running, pending_docs, claims_files, xml_files, crashes, conn, others>>

\* db.mark_document_processed(doc['url'], mode, 'failed', str(e)); return 0
MarkWriteFailed ==
    \E mode \in Modes : \E k \in DOMAIN pc[mode] :
        /\ At(mode, k, "write_error")
        /\ documents' = mark_document_processed(documents, pending_docs[mode][k].url,
                            mode, "failed", "OSError", clock)
        /\ Goto(mode, k, "done")
        /\ UNCHANGED <<server, clock, running, pending_docs, claims_files, xml_files, crashes, conn, others>>

\* every future completed: the run logs its count and returns
ScrapeEnd ==
    \E mode \in Modes :
        /\ running[mode]
        /\ \A k \in DOMAIN pc[mode] : pc[mode][k] \in Terminal
        /\ running' = [running EXCEPT ![mode] = FALSE]
        /\ pending_docs' = [pending_docs EXCEPT ![mode] = <<>>]
        /\ pc' = [pc EXCEPT ![mode] = <<>>]
        /\ UNCHANGED <<server, documents, clock, claims_files, xml_files, crashes, conn, others>>

\* the process of a run is killed (crash, power loss) at any point of its workers
Crash ==
    \E mode \in Modes :
        /\ running[mode]
        /\ \E k \in DOMAIN pc[mode] : pc[mode][k] \notin Terminal
        /\ crashes < MaxCrashes
        /\ crashes' = crashes + 1
        /\ running' = [running EXCEPT ![mode] = FALSE]
        /\ pending_docs' = [pending_docs EXCEPT ![mode] = <<>>]
        /\ pc' = [pc EXCEPT ![mode] = <<>>]
        /\ UNCHANGED <<server, documents, clock, claims_files, xml_files, conn, others>>

----------------------------------------------------------------------------
(* The same scrape claims command run again and again: rerun.range is the  *)
(* --start-date / --end-date of the command, rerun.ended the number of its *)
(* runs that ended since the last discover command.                        *)
(***************************************************************************)

\* the discover command, between two scrape runs
DiscoverAnew ==
    /\ ~running["claims"]
    /\ DiscoverStore
    /\ rerun' = [rerun EXCEPT !.ended = 0]
    /\ UNCHANGED <<server, clock, running, pending_docs, pc, claims_files, xml_files,
                   crashes, conn, file_locks, request, schema, commands>>

\* scrape claims --start-date ... --end-date ..., once more
ScrapeClaimsAgain ==
    /\ ~running["claims"]
    /\ rerun.ended < MaxRuns
    /\ Load("claims", rerun.range[1], rerun.range[2])

\* the run returns: every future completed
ScrapeClaimsEnd ==
    /\ running["claims"]
    /\ \A k \in DOMAIN pc["claims"] : pc["claims"][k] \in Terminal
    /\ running' = [running EXCEPT !["claims"] = FALSE]
    /\ pending_docs' = [pending_docs EXCEPT !["claims"] = <<>>]
    /\ pc' = [pc EXCEPT !["claims"] = <<>>]
    /\ rerun' = [rerun EXCEPT !.ended = @ + 1]
    /\ UNCHANGED <<server, documents, clock, claims_files, xml_files, crashes, conn,
                   file_locks, request, schema, commands>>

----------------------------------------------------------------------------
(* The write of a claims line statement by statement, in one scrape claims *)
(* run (one EPOScraper instance).  file_locks holds                        *)
(*   global    the worker inside `with self._global_lock`, 0 when free     *)
(*   registry  self._file_locks: per date the lock stored, 0 when no entry *)
(*   created   the number of threading.Lock() objects created, which       *)
(*             numbers the locks                                           *)
(*   lock      per worker, its local variable lock, 0 before the call      *)
(*   held      the locks that are held                                     *)
(* A line reaches the file in two chunks (the buffer is flushed in more    *)
(* than one write when the line is long); a chunk is identified by the     *)
(* document of its line.  Positions of a worker, after has_claims:         *)
(*   in_registry  inside _get_file_lock, holding the registry lock         *)
(*   absent       the key was tested and is not in the registry            *)
(*   present      the key is in the registry                               *)
(*   has_lock     _get_file_lock returned                                  *)
(*   locked       the date's lock is acquired                              *)
(*   open         the file is open                                         *)
(*   half         the first chunk of the line is in the file               *)
(*   flushed      the whole line is in the file                            *)
(***************************************************************************)

NoLocks ==
    [global |-> 0, registry |-> [d \in Dates |-> 0], created |-> 0, lock |-> <<>>, held |-> {}]

\* a registry that holds one lock for all keys
SharedLock(registry, key, fresh) == 1

\* a registry lookup that never finds the entry
FreshLock(registry, key, fresh) == fresh

\* if key not in self._file_locks: self._file_locks[key] = threading.Lock()
\* return self._file_locks[key]
LockFor(registry, key, fresh) == IF registry[key] # 0 THEN registry[key] ELSE fresh

\* the variables no step of the write changes
Unlocked == UNCHANGED <<server, documents, clock, running, pending_docs, xml_files,
                        crashes, conn, rerun, request, schema, commands>>

\* scrape claims: a new EPOScraper, its registry empty, loads its list
ScrapeClaimsStart ==
    \E start_date \in Dates \cup {NoDate}, end_date \in Dates \cup {NoDate} :
        /\ ~running["claims"]
        /\ LoadRun("claims", start_date, end_date)
        /\ file_locks' = [NoLocks EXCEPT
               !.lock = [k \in 1..Len(pending_docs'["claims"]) |-> 0]]
        /\ UNCHANGED <<server, documents, clock, claims_files, xml_files, crashes, conn,
                       rerun, request, schema, commands>>

\* a _get_file_lock that enters its body without taking the registry lock
EnterUnguarded ==
    \E k \in DOMAIN pc["claims"] :
        /\ At("claims", k, "has_claims")
        /\ file_locks' = [file_locks EXCEPT !.global = k]
        /\ Goto("claims", k, "in_registry")
        /\ UNCHANGED claims_files
        /\ Unlocked

\* lock = self._get_file_lock(doc['date']): with self._global_lock
EnterRegistry ==
    \E k \in DOMAIN pc["claims"] :
        /\ At("claims", k, "has_claims")
        /\ file_locks.global = 0
        /\ file_locks' = [file_locks EXCEPT !.global = k]
        /\ Goto("claims", k, "in_registry")
        /\ UNCHANGED claims_files
        /\ Unlocked

\* the body of _get_file_lock and its return, which releases the registry lock
LookupLock ==
    \E k \in DOMAIN pc["claims"] :
        /\ At("claims", k, "in_registry")
        /\ LET key == pending_docs["claims"][k].date
               lock == LockFor(file_locks.registry, key, file_locks.created + 1)
           IN file_locks' = [file_locks EXCEPT
                  !.registry[key] = lock,
                  !.created = IF lock = @ + 1 THEN @ + 1 ELSE @,
                  !.lock[k] = lock,
                  !.global = 0]
        /\ Goto("claims", k, "has_lock")
        /\ UNCHANGED claims_files
        /\ Unlocked

\* _get_file_lock statement by statement: if key not in self._file_locks,
\* which leads the worker to position absent or present
TestKey ==
    \E k \in DOMAIN pc["claims"] :
        /\ At("claims", k, "in_registry")
        /\ Goto("claims", k, IF file_locks.registry[pending_docs["claims"][k].date] = 0
                             THEN "absent" ELSE "present")
        /\ UNCHANGED <<claims_files, file_locks>>
        /\ Unlocked

\* self._file_locks[key] = threading.Lock()
CreateLock ==
    \E k \in DOMAIN pc["claims"] :
        /\ At("claims", k, "absent")
        /\ file_locks' = [file_locks EXCEPT
               !.registry[pending_docs["claims"][k].date] = file_locks.created + 1,
               !.created = @ + 1]
        /\ Goto("claims", k, "present")
        /\ UNCHANGED claims_files
        /\ Unlocked

\* return self._file_locks[key], which leaves the with block and releases
\* the registry lock
ReturnLock ==
    \E k \in DOMAIN pc["claims"] :
        /\ At("claims", k, "present")
        /\ file_locks' = [file_locks EXCEPT
               !.lock[k] = file_locks.registry[pending_docs["claims"][k].date],
               !.global = 0]
        /\ Goto("claims", k, "has_lock")
        /\ UNCHANGED claims_files
        /\ Unlocked

\* with lock: the lock is acquired when no worker holds it
AcquireFileLock ==
    \E k \in DOMAIN pc["claims"] :
        /\ At("claims", k, "has_lock")
        /\ file_locks.lock[k] \notin file_locks.held
        /\ file_locks' = [file_locks EXCEPT !.held = @ \cup {file_locks.lock[k]}]
        /\ Goto("claims", k, "locked")
        /\ UNCHANGED claims_files
        /\ Unlocked

\* open(output_file, 'a', encoding='utf-8') as f
OpenFile ==
    \E k \in DOMAIN pc["claims"] :
        /\ At("claims", k, "locked")
        /\ Goto("claims", k, "open")
        /\ UNCHANGED <<claims_files, file_locks>>
        /\ Unlocked

\* open raises: the with statement releases the lock, except Exception as e
OpenError ==
    \E k \in DOMAIN pc["claims"] :
        /\ At("claims", k, "locked")
        /\ file_locks' = [file_locks EXCEPT !.held = @ \ {file_locks.lock[k]}]
        /\ Goto("claims", k, "write_error")
        /\ UNCHANGED claims_files
        /\ Unlocked

\* f.write(...): the first chunk of the line reaches the file
WriteChunk ==
    \E k \in DOMAIN pc["claims"] :
        /\ At("claims", k, "open")
        /\ claims_files' = AppendLine(claims_files, pending_docs["claims"][k])
        /\ Goto("claims", k, "half")
        /\ UNCHANGED file_locks
        /\ Unlocked

\* the rest of the line reaches the file
WriteRest ==
    \E k \in DOMAIN pc["claims"] :
        /\ At("claims", k, "half")
        /\ claims_files' = AppendLine(claims_files, pending_docs["claims"][k])
        /\ Goto("claims", k, "flushed")
        /\ UNCHANGED file_locks
        /\ Unlocked

\* leaving the with statement: the file is closed, the lock released
CloseFile ==
    \E k \in DOMAIN pc["claims"] :
        /\ At("claims", k, "flushed")
        /\ file_locks' = [file_locks EXCEPT !.held = @ \ {file_locks.lock[k]}]
        /\ Goto("claims", k, "written")
        /\ UNCHANGED claims_files
        /\ Unlocked

----------------------------------------------------------------------------
(* EPODatabase.init_db on a database file that exists.  The file is the    *)
(* columns and the indexes of its documents table (schema) and its rows    *)
(* (documents); a row is a function of the columns.  A statement that      *)
(* SQLite rejects raises sqlite3.OperationalError; the statements are DDL, *)
(* which the sqlite3 module runs outside a transaction, so what the        *)
(* statements before the rejected one did stays in the file.               *)
(***************************************************************************)

\* SQL NULL in the INTEGER column doc_index (None in Python)
NullIndex == 0

\* the columns of CREATE TABLE documents
CurrentColumns ==
    {"url", "date", "doc_id", "doc_index", "discovered_at",
     "claims_status", "claims_error", "claims_processed_at",
     "xml_status", "xml_error", "xml_processed_at"}

\* the columns the migration of init_db expects of the older table
OldColumns ==
    {"url", "date", "doc_id", "discovered_at", "status", "error_message", "processed_at"}

\* the table before doc_index was introduced
MidColumns == CurrentColumns \ {"doc_index"}

CurrentIndexes ==
    {"idx_documents_date", "idx_documents_claims_status", "idx_documents_xml_status"}

\* the database file as the statements of init_db see and leave it
File(columns, indexes, rows) ==
    [columns |-> columns, indexes |-> indexes, rows |-> rows, raised |-> FALSE]

\* CREATE TABLE IF NOT EXISTS documents (...)
CreateTable(db) ==
    IF db.raised \/ db.columns # {} THEN db ELSE [db EXCEPT !.columns = CurrentColumns]

\* CREATE INDEX IF NOT EXISTS name ON documents (column)
CreateIndex(db, name, column) ==
    IF db.raised \/ name \in db.indexes THEN db
    ELSE IF column \notin db.columns THEN [db EXCEPT !.raised = TRUE]
    ELSE [db EXCEPT !.indexes = @ \cup {name}]

\* SELECT column FROM documents LIMIT 1
SelectColumn(db, column) ==
    IF db.raised \/ column \in db.columns THEN db ELSE [db EXCEPT !.raised = TRUE]

\* ALTER TABLE documents RENAME COLUMN old TO new
RenameColumn(db, old, new) ==
    IF db.raised THEN db
    ELSE IF old \notin db.columns \/ new \in db.columns THEN [db EXCEPT !.raised = TRUE]
    ELSE [db EXCEPT
             !.columns = (@ \ {old}) \cup {new},
             !.rows = {[c \in (DOMAIN r \ {old}) \cup {new} |->
                           IF c = new THEN r[old] ELSE r[c]] : r \in @}]

\* ALTER TABLE documents ADD COLUMN column [DEFAULT default]
AddColumn(db, column, default) ==
    IF db.raised THEN db
    ELSE IF column \in db.columns THEN [db EXCEPT !.raised = TRUE]
    ELSE [db EXCEPT
             !.columns = @ \cup {column},
             !.rows = {[c \in DOMAIN r \cup {column} |->
                           IF c = column THEN default ELSE r[c]] : r \in @}]

\* the try block: the old schema exists, migrate it
Migrate(db) ==
    LET a == SelectColumn(db, "status")
        b == RenameColumn(a, "status", "claims_status")
        c == RenameColumn(b, "error_message", "claims_error")
        d == RenameColumn(c, "processed_at", "claims_processed_at")
        e == AddColumn(d, "xml_status", "pending")
        f == AddColumn(e, "xml_error", Null)
        g == AddColumn(f, "xml_processed_at", NullTime)
    IN AddColumn(g, "doc_index", NullIndex)

\* except sqlite3.OperationalError: add doc_index if it is missing
AddMissingIndexColumn(db) ==
    LET caught == [db EXCEPT !.raised = FALSE]
    IN IF SelectColumn(caught, "doc_index").raised
       THEN AddColumn(caught, "doc_index", NullIndex)
       ELSE caught

init_db(db) ==
    LET a == CreateTable(db)
        b == CreateIndex(a, "idx_documents_date", "date")
        c == CreateIndex(b, "idx_documents_claims_status", "claims_status")
        d == CreateIndex(c, "idx_documents_xml_status", "xml_status")
        m == Migrate(d)
    IN IF d.raised THEN d
       ELSE IF m.raised THEN AddMissingIndexColumn(m)
       ELSE m

\* a store that EPODatabase.__init__ opened: the current table
CurrentSchema == [columns |-> CurrentColumns, indexes |-> CurrentIndexes, opened |-> "yes"]

\* a row as the older program wrote it
OldRow(url, date, status) ==
    [url |-> url, date |-> date, doc_id |-> DocIdOf(url), discovered_at |-> 1,
     status |-> status,
     error_message |-> IF status = "failed" THEN FetchErrorText ELSE Null,
     processed_at |-> IF status = "pending" THEN NullTime ELSE 1]

\* a row as the program wrote it before doc_index was introduced
MidRow(url, date, status) ==
    [url |-> url, date |-> date, doc_id |-> DocIdOf(url), discovered_at |-> 1,
     claims_status |-> status,
     claims_error |-> IF status = "failed" THEN FetchErrorText ELSE Null,
     claims_processed_at |-> IF status = "pending" THEN NullTime ELSE 1,
     xml_status |-> "pending", xml_error |-> Null, xml_processed_at |-> NullTime]

Statuses == {"pending", "completed", "failed"}

\* the files the store is opened on: no table yet, or a table of an older
\* program with one or two documents of the first date
StoredFiles ==
    {File({}, {}, {})}
        \cup {File(OldColumns, {"idx_documents_date"}, {OldRow("u1", <<0, 9>>, s1)} \cup more) :
                 s1 \in Statuses,
                 more \in {{}} \cup {{OldRow("u2", <<0, 9>>, s2)} : s2 \in Statuses}}
        \cup {File(MidColumns, CurrentIndexes, {MidRow("u1", <<0, 9>>, s1)} \cup more) :
                 s1 \in Statuses,
                 more \in {{}} \cup {{MidRow("u2", <<0, 9>>, s2)} : s2 \in Statuses}}

\* EPODatabase(db_path): init_db on the file; what it raises reaches the caller
OpenStore ==
    /\ schema.opened = "no"
    /\ LET db == init_db(File(schema.columns, schema.indexes, documents))
       IN /\ schema' = [columns |-> db.columns, indexes |-> db.indexes,
                        opened |-> IF db.raised THEN "error" ELSE "yes"]
          /\ documents' = db.rows
    /\ UNCHANGED <<server, clock, running, pending_docs, pc, claims_files, xml_files,
                   crashes, conn, rerun, file_locks, request, commands>>

\* the discover command on the opened store
DiscoverOpened ==
    /\ schema.opened = "yes"
    /\ Discover

\* scrape xml on the opened store
ScrapeXmlOpened ==
    /\ schema.opened = "yes"
    /\ ~running["xml"]
    /\ Load("xml", NoDate, NoDate)

----------------------------------------------------------------------------
(* EPOScraper._get_response under @retry(tries=10, ...).  The decorator    *)
(* (package retry) calls the function; when the call raises it counts the  *)
(* try, re-raises when no try is left, and otherwise sleeps and calls      *)
(* again; when the call returns, the decorator returns its value.          *)
(* request holds                                                           *)
(*   at        idle, calling, returned or raised                           *)
(*   script    what the server does at the 1st, 2nd, ... attempt           *)
(*   attempts  the number of requests.get calls made                       *)
(*   tries     _tries of the decorator                                     *)
(*   result    the value returned                                          *)
(***************************************************************************)

\* @retry(tries=10, ...)
Tries == 10

\* what an attempt can meet: a 2xx response, or requests.get raising
\* ConnectionError or Timeout, or raise_for_status raising HTTPError
Outcomes == {"ok", "ConnectionError", "Timeout", "HTTPError"}

Scripts == UNION {[1..n -> Outcomes] : n \in 1..MaxScript}

NoRequest == [at |-> "idle", script |-> <<>>, attempts |-> 0, tries |-> 0, result |-> Null]

\* what the n-th attempt meets
Meets(script, n) == IF n <= Len(script) THEN script[n] ELSE script[Len(script)]

\* an except clause that catches none of the errors
CaughtNever(error) == FALSE

\* except requests.RequestException: the three errors are subclasses of it
Caught(error) == error \in {"ConnectionError", "Timeout", "HTTPError"}

\* one call of the decorated function body: the value returned, or raises
Body(outcome) ==
    IF outcome = "ok" THEN [raises |-> FALSE, value |-> "response"]
    ELSE IF Caught(outcome) THEN [raises |-> FALSE, value |-> "None"]
    ELSE [raises |-> TRUE, value |-> Null]

Unrequested == UNCHANGED <<server, documents, clock, running, pending_docs, pc, claims_files,
                           xml_files, crashes, conn, rerun, file_locks, schema, commands>>

\* self._get_response(url) is called: the decorator starts with _tries = 10
GetResponse ==
    \E script \in Scripts :
        /\ request.at = "idle"
        /\ request' = [NoRequest EXCEPT !.at = "calling", !.script = script, !.tries = Tries]
        /\ Unrequested

\* while _tries: try: return f() except: _tries -= 1; if not _tries: raise
Attempt ==
    /\ request.at = "calling"
    /\ LET call == Body(Meets(request.script, request.attempts + 1))
       IN request' =
              IF ~call.raises
              THEN [request EXCEPT !.at = "returned", !.attempts = @ + 1,
                                   !.result = call.value]
              ELSE IF request.tries - 1 = 0
              THEN [request EXCEPT !.at = "raised", !.attempts = @ + 1, !.tries = 0]
              ELSE [request EXCEPT !.attempts = @ + 1, !.tries = @ - 1]
    /\ Unrequested

\* the caller goes on with the value, or with the exception
Received ==
    /\ request.at \in {"returned", "raised"}
    /\ request' = NoRequest
    /\ Unrequested

----------------------------------------------------------------------------
(* add_documents statement by statement, for two discover commands that    *)
(* run at the same time on one database file.  sqlite3 (isolation_level    *)
(* ''): the SELECT runs outside any transaction and sees the committed     *)
(* rows; the first INSERT begins the transaction and takes the write lock; *)
(* leaving the with block commits.  An INSERT that finds the lock taken    *)
(* waits, and raises "database is locked" when the timeout expires.        *)
(***************************************************************************)

Procs == {"p1", "p2"}

\* no add_documents call in progress
IdleConn ==
    [at |-> "closed", batch |-> <<>>, dates |-> <<>>, date_docs |-> <<>>, i |-> 0,
     inserted |-> {}, writing |-> FALSE]

\* what the statements of p see: the committed rows and its own uncommitted ones
Visible(p) == documents \cup conn[p].inserted

\* with sqlite3.connect(self.db_path) as conn: by_date built from the list
Connect(p) ==
    \E batch \in Batches :
        /\ conn[p].at = "closed"
        /\ \A d \in Dates : MaxDocIndex(documents, d) + Len(batch) <= MaxIndex
        /\ conn' = [conn EXCEPT ![p] =
               [IdleConn EXCEPT !.at = "select", !.batch = batch, !.dates = GroupDates(batch)]]
        /\ UNCHANGED <<server, documents, clock, running, pending_docs, pc,
                       claims_files, xml_files, crashes, others>>

\* SELECT COALESCE(MAX(doc_index), 0) ... for the next date of by_date
SelectMax(p) ==
    /\ conn[p].at = "select"
    /\ LET date == Head(conn[p].dates)
       IN conn' = [conn EXCEPT ![p].at = "insert",
                               ![p].date_docs = DateDocs(conn[p].batch, date),
                               ![p].i = StartIndex(MaxDocIndex(Visible(p), date))]
    /\ UNCHANGED <<server, documents, clock, running, pending_docs, pc,
                   claims_files, xml_files, crashes, others>>

\* INSERT OR IGNORE of the next document of the date; after the date's last
\* document the loop goes on to the next date, after the last date the block ends
Insert(p) ==
    /\ conn[p].at = "insert"
    /\ \A q \in Procs \ {p} : ~conn[q].writing
    /\ LET doc == Head(conn[p].date_docs)
           rest == Tail(conn[p].date_docs)
           more == Tail(conn[p].dates)
       IN conn' = [conn EXCEPT
              ![p].inserted = InsertOrIgnore(Visible(p), doc, conn[p].i, clock) \ documents,
              ![p].writing = TRUE,
              ![p].date_docs = rest,
              ![p].i = conn[p].i + 1,
              ![p].dates = IF rest = <<>> THEN more ELSE conn[p].dates,
              ![p].at = IF rest # <<>> THEN "insert"
                        ELSE IF more # <<>> THEN "select" ELSE "commit"]
    /\ UNCHANGED <<server, documents, clock, running, pending_docs, pc,
                   claims_files, xml_files, crashes, others>>

\* the INSERT waited for the write lock until the timeout: OperationalError,
\* the with block rolls back and add_documents raises
Locked(p) ==
    /\ conn[p].at = "insert"
    /\ \E q \in Procs \ {p} : conn[q].writing
    /\ conn' = [conn EXCEPT ![p] = IdleConn]
    /\ UNCHANGED <<server, documents, clock, running, pending_docs, pc,
                   claims_files, xml_files, crashes, others>>

\* leaving the with block: commit
Commit(p) ==
    /\ conn[p].at = "commit"
    /\ documents' = Visible(p)
    /\ conn' = [conn EXCEPT ![p] = IdleConn]
    /\ UNCHANGED <<server, clock, running, pending_docs, pc, claims_files, xml_files, crashes, others>>

ConnectAny == \E p \in Procs : Connect(p)

SelectMaxAny == \E p \in Procs : SelectMax(p)

InsertAny == \E p \in Procs : Insert(p)

LockedAny == \E p \in Procs : Locked(p)

CommitAny == \E p \in Procs : Commit(p)

----------------------------------------------------------------------------
(* EPODatabase.get_stats *)

\* a COUNT(*) that counts the rows of every status
CountAll(table, mode, status) == Cardinality(table)

\* SELECT {mode}_status, COUNT(*) FROM documents GROUP BY {mode}_status
CountOf(table, mode, status) == Cardinality({r \in table : StatusOf(r, mode) = status})

\* {row[0]: row[1] for row in cursor.fetchall()}: a key per status stored in
\* some row, and the key 'total' of the second SELECT, which comes last
StatsOf(table, mode) ==
    [key \in {StatusOf(r, mode) : r \in table} \cup {"total"} |->
        IF key = "total" THEN Cardinality(table) ELSE CountOf(table, mode, key)]

\* SELECT MIN(date), MAX(date), COUNT(DISTINCT date) FROM documents
DateStats(table) ==
    LET ds == {r.date : r \in table}
    IN [min_date |-> IF ds = {} THEN NoDate ELSE CHOOSE d \in ds : \A e \in ds : TextLeq(d, e),
        max_date |-> IF ds = {} THEN NoDate ELSE CHOOSE d \in ds : \A e \in ds : TextLeq(e, d),
        date_count |-> Cardinality(ds)]

get_stats(table) ==
    [claims |-> StatsOf(table, "claims"), xml |-> StatsOf(table, "xml"),
     dates |-> DateStats(table)]

----------------------------------------------------------------------------
(* The discover command step by step (main, lines 542-566). discovery holds *)
(*   at          where the command stands: none, dates (discover_dates      *)
(*               returned), stored (add_dates committed), found             *)
(*               (discover_documents returned), done, exited (sys.exit(1)), *)
(*               killed                                                     *)
(*   page        the links of the page /publication-dates/, each href as    *)
(*               href.split('/')                                            *)
(*   dates       what discover_dates returned                               *)
(*   fetched     the dates whose page of documents was fetched              *)
(*   all_documents  the list handed to add_documents                        *)
(* A date is written here with its day alone (format %d); the year and the  *)
(* month are the same in all of them.                                       *)
(***************************************************************************)

\* the characters of a link: the digits 0, 1 and 9, and 10 for a letter
Chars == {0, 1, 9, 10}

\* the segments of an href
Segments == UNION {[1..n -> Chars] : n \in 0..MaxText}

\* href.split('/') of the links of a page: one segment (the href has no
\* slash), or a segment followed by a last one
Hrefs == {<<t>> : t \in Segments} \cup {<<t, <<>>>> : t \in Segments}

\* the pages of up to two links
Pages == {<<>>} \cup {<<h>> : h \in Hrefs} \cup {<<g, h>> : g, h \in Hrefs}

\* the page that lists the dates of the server, each as "{date}/"
DatesPage == <<<< <<0, 9>>, <<>> >>, << <<1, 0>>, <<>> >>>>

ValueError == 0 - 1

\* datetime.strptime(date_str, '%d'): the pattern 3[0-1]|[1-2]\d|0[1-9]|[1-9]
\* matched at the start of the string, the first alternative that matches
\* taken, and ValueError when it does not match or data remains after it
Strptime(date_str) ==
    IF Len(date_str) = 2 /\ date_str[1] = 3 /\ date_str[2] \in 0..1 THEN 30 + date_str[2]
    ELSE IF Len(date_str) = 2 /\ date_str[1] \in 1..2 /\ date_str[2] \in 0..9
         THEN 10 * date_str[1] + date_str[2]
    ELSE IF Len(date_str) = 2 /\ date_str[1] = 0 /\ date_str[2] \in 1..9 THEN date_str[2]
    ELSE IF Len(date_str) = 1 /\ date_str[1] \in 1..9 THEN date_str[1]
    ELSE ValueError

\* a link is kept: href.split('/')[-2] exists (else IndexError), parses (else
\* ValueError) and start_dt <= link_date <= end_dt
Kept(href, start_dt, end_dt) ==
    /\ Len(href) >= 2
    /\ Strptime(href[Len(href) - 1]) # ValueError
    /\ start_dt <= Strptime(href[Len(href) - 1])
    /\ Strptime(href[Len(href) - 1]) <= end_dt

\* the loop over links: filtered_dates.append(date_str) for the links kept
RECURSIVE FilteredDates(_, _, _)
FilteredDates(links, start_dt, end_dt) ==
    IF links = <<>> THEN <<>>
    ELSE (IF Kept(Head(links), start_dt, end_dt)
          THEN <<Head(links)[Len(Head(links)) - 1]>> ELSE <<>>)
             \o FilteredDates(Tail(links), start_dt, end_dt)

\* discover_dates(start_date, end_date); [] when the page was not fetched
discover_dates(links, start_date, end_date, fetched) ==
    IF fetched THEN FilteredDates(links, Strptime(start_date), Strptime(end_date)) ELSE <<>>

\* no discover command has run
NoDiscovery ==
    [at |-> "none", start_date |-> NoDate, end_date |-> NoDate, page |-> DatesPage,
     dates |-> <<>>, fetched |-> {}, all_documents |-> <<>>]

Undiscovered ==
    UNCHANGED <<server, clock, running, pending_docs, pc, claims_files, xml_files, crashes,
                conn, rerun, file_locks, request, schema, exited, extraction, interrupted,
                other_run>>

\* dates = scraper.discover_dates(args.start_date, args.end_date), and
\* if not dates: sys.exit(1)
DiscoverDates ==
    \E start_date \in Dates, end_date \in Dates, fetched \in BOOLEAN :
        LET dates == discover_dates(discovery.page, start_date, end_date, fetched)
        IN /\ discovery.at \in {"none", "done", "exited", "killed"}
           /\ discovery' = [NoDiscovery EXCEPT !.at = IF dates = <<>> THEN "exited" ELSE "dates",
                                               !.start_date = start_date,
                                               !.end_date = end_date,
                                               !.page = discovery.page,
                                               !.dates = dates]
           /\ UNCHANGED <<documents, dates_table>>
           /\ Undiscovered

\* db.add_dates(dates)
DiscoverAddDates ==
    /\ discovery.at = "dates"
    /\ dates_table' = add_dates(dates_table, discovery.dates, clock)
    /\ discovery' = [discovery EXCEPT !.at = "stored"]
    /\ UNCHANGED documents
    /\ Undiscovered

\* a discovery that stops at the first page it could not fetch
RECURSIVE AllDocumentsUntilFailure(_, _)
AllDocumentsUntilFailure(order, ok) ==
    IF order = <<>> \/ Head(order) \notin ok THEN <<>>
    ELSE ProcessDate(Head(order), TRUE) \o AllDocumentsUntilFailure(Tail(order), ok)

\* the lists of documents_by_date.values(), one after another
Extend(order, ok) == AllDocuments(order, ok)

\* documents_by_date = scraper.discover_documents(dates, args.ends_with) and
\* all_documents: each date's page fetched or not, the futures completing
\* in any order
DiscoverDocuments ==
    \E order \in Orders({discovery.dates[k] : k \in DOMAIN discovery.dates}) :
        \E ok \in SUBSET {discovery.dates[k] : k \in DOMAIN discovery.dates} :
            /\ discovery.at = "stored"
            /\ discovery' = [discovery EXCEPT !.at = "found",
                                              !.dates = order,
                                              !.fetched = ok,
                                              !.all_documents = Extend(order, ok)]
            /\ UNCHANGED <<documents, dates_table>>
            /\ Undiscovered

\* if all_documents: db.add_documents(all_documents)
DiscoverAddDocuments ==
    /\ discovery.at = "found"
    /\ documents' = AddAll(documents, discovery.all_documents, clock)
    /\ discovery' = [discovery EXCEPT !.at = "done"]
    /\ UNCHANGED dates_table
    /\ Undiscovered

\* the process is killed or interrupted between two of its steps
DiscoverKill ==
    /\ discovery.at \in {"dates", "stored", "found"}
    /\ discovery' = [discovery EXCEPT !.at = "killed"]
    /\ UNCHANGED <<documents, dates_table>>
    /\ Undiscovered

----------------------------------------------------------------------------
(* A second scrape claims process on the same store and the same output    *)
(* directory, started while the first may be running.  other_run holds its  *)
(* running flag, the list it loaded and the positions of its workers, as    *)
(* running, pending_docs and pc do for the first process.                   *)
(***************************************************************************)

NoRun == [running |-> FALSE, pending_docs |-> <<>>, pc |-> <<>>]

OtherAt(k, where) ==
    /\ other_run.running
    /\ k \in DOMAIN other_run.pc
    /\ other_run.pc[k] = where

OtherGoto(k, where) == other_run' = [other_run EXCEPT !.pc[k] = where]

\* the variables of the first process and of the other commands
Elsewhere ==
    UNCHANGED <<server, clock, running, pending_docs, pc, xml_files, crashes, conn, rerun,
                file_locks, request, schema, dates_table, exited, extraction, interrupted,
                discovery>>

\* pending_docs = db.get_pending_documents('claims', start_date, end_date) and
\* the futures submitted, in the second process
OtherScrapeStart ==
    \E start_date \in Dates \cup {NoDate}, end_date \in Dates \cup {NoDate} :
        /\ ~other_run.running
        /\ other_run' = [running |-> TRUE,
               pending_docs |-> get_pending_documents(documents, "claims", start_date, end_date),
               pc |-> [k \in 1..Len(get_pending_documents(documents, "claims",
                                        start_date, end_date)) |-> "queued"]]
        /\ UNCHANGED <<documents, claims_files>>
        /\ Elsewhere

\* response = self._get_response(doc['url']) and the extraction
OtherFetch ==
    \E k \in DOMAIN other_run.pc : \E outcome \in FetchOutcomes("claims") :
        /\ OtherAt(k, "queued")
        /\ \A j \in 1..(k - 1) : other_run.pc[j] # "queued"
        /\ Cardinality({j \in DOMAIN other_run.pc :
               other_run.pc[j] \notin Terminal \cup {"queued"}}) < MaxWorkers
        /\ OtherGoto(k, outcome)
        /\ UNCHANGED <<documents, claims_files>>
        /\ Elsewhere

\* if not response: mark 'failed', return 0
OtherMarkFetchFailed ==
    \E k \in DOMAIN other_run.pc :
        /\ OtherAt(k, "no_response")
        /\ documents' = mark_document_processed(documents, other_run.pending_docs[k].url,
                            "claims", FetchFailedStatus, FetchErrorText, clock)
        /\ OtherGoto(k, "done")
        /\ UNCHANGED claims_files
        /\ Elsewhere

\* if not claims_data: mark 'completed' with the note, return 0
OtherMarkNoClaims ==
    \E k \in DOMAIN other_run.pc :
        /\ OtherAt(k, "no_claims")
        /\ documents' = mark_document_processed(documents, other_run.pending_docs[k].url,
                            "claims", NoClaimsStatus, NoClaimsNote, clock)
        /\ OtherGoto(k, "done")
        /\ UNCHANGED claims_files
        /\ Elsewhere

\* with lock, open(output_file, 'a') as f: f.write(...)
OtherWriteClaims ==
    \E k \in DOMAIN other_run.pc :
        /\ OtherAt(k, "has_claims")
        /\ claims_files' = AppendLine(claims_files, other_run.pending_docs[k])
        /\ OtherGoto(k, "written")
        /\ UNCHANGED documents
        /\ Elsewhere

\* open or write raises: except Exception as e
OtherWriteError ==
    \E k \in DOMAIN other_run.pc :
        /\ OtherAt(k, "has_claims")
        /\ OtherGoto(k, "write_error")
        /\ UNCHANGED <<documents, claims_files>>
        /\ Elsewhere

\* db.mark_document_processed(doc['url'], 'claims', 'completed'); return 1
OtherMarkCompleted ==
    \E k \in DOMAIN other_run.pc :
        /\ OtherAt(k, "written")
        /\ documents' = mark_document_processed(documents, other_run.pending_docs[k].url,
                            "claims", "completed", Null, clock)
        /\ OtherGoto(k, "done")
        /\ UNCHANGED claims_files
        /\ Elsewhere

\* db.mark_document_processed(doc['url'], 'claims', 'failed', str(e)); return 0
OtherMarkWriteFailed ==
    \E k \in DOMAIN other_run.pc :
        /\ OtherAt(k, "write_error")
        /\ documents' = mark_document_processed(documents, other_run.pending_docs[k].url,
                            "claims", "failed", "OSError", clock)
        /\ OtherGoto(k, "done")
        /\ UNCHANGED claims_files
        /\ Elsewhere

\* every future completed: the second process exits
OtherScrapeEnd ==
    /\ other_run.running
    /\ \A k \in DOMAIN other_run.pc : other_run.pc[k] \in Terminal
    /\ other_run' = NoRun
    /\ UNCHANGED <<documents, claims_files>>
    /\ Elsewhere

----------------------------------------------------------------------------
(* main: the commands discover, scrape and stats, each run as a process.   *)
(* exited holds for the last command                                       *)
(*   command  discover, scrape or stats; none before the first command and *)
(*            while a scrape command runs                                  *)
(*   usable   sqlite3.connect could open the --db-path                     *)
(*   found    len(dates) of the discover command                           *)
(*   code     the exit status: 1 from sys.exit(1) and from an exception    *)
(*            that reaches the top of the process, else 0                  *)
(*   stats    what the stats command printed                               *)
(***************************************************************************)

Commands == {"discover", "scrape", "stats"}

\* no command has exited: none was run yet, or a scrape command is running
NoExit ==
    [command |-> "none", usable |-> TRUE, found |-> 0, code |-> 0, stats |-> get_stats({})]

\* _extract_claims_json has not been called
NoData == [body |-> NoTree("error"), result |-> NoRecord, called |-> FALSE]

\* no run received an interrupt
NoInterrupt == [m \in Modes |-> FALSE]

\* the state of the commands before the first of them runs
Rest ==
    /\ exited = NoExit
    /\ extraction = NoData
    /\ interrupted = NoInterrupt
    /\ discovery = NoDiscovery
    /\ other_run = NoRun

\* a test of the dates found that never takes the exit
NoDatesNever(found) == FALSE

\* if not dates:
NoDates(found) == found = <<>>

\* db = EPODatabase(args.db_path) raises: sqlite3.connect cannot open the path
\* (a directory, a directory that does not exist, no permission)
MainUnusable ==
    \E command \in Commands :
        /\ \A m \in Modes : ~running[m]
        /\ exited' = [NoExit EXCEPT !.command = command, !.usable = FALSE, !.code = 1]
        /\ UNCHANGED <<server, documents, clock, running, pending_docs, pc, claims_files,
                       xml_files, crashes, conn, rerun, file_locks, request, schema,
                       dates_table, extraction, interrupted, discovery, other_run>>

\* the discover command on a usable path: discover_dates (the page of dates
\* fetched or not), add_dates, discover_documents, add_documents
MainDiscover ==
    \E start_date \in Dates, end_date \in Dates, fetched \in BOOLEAN :
        \E order \in Orders(InRange(start_date, end_date)) :
            \E ok \in SUBSET InRange(start_date, end_date) :
                LET found == IF fetched THEN order ELSE <<>>
                IN /\ \A m \in Modes : ~running[m]
                   /\ IF NoDates(found)
                      THEN /\ exited' = [NoExit EXCEPT !.command = "discover", !.code = 1]
                           /\ UNCHANGED <<dates_table, documents>>
                      ELSE /\ dates_table' = add_dates(dates_table, found, clock)
                           /\ documents' = AddAll(documents, AllDocuments(found, ok), clock)
                           /\ exited' = [NoExit EXCEPT !.command = "discover",
                                                       !.found = Len(found)]
                   /\ UNCHANGED <<server, clock, running, pending_docs, pc, claims_files,
                                  xml_files, crashes, conn, rerun, file_locks, request,
                                  schema, extraction, interrupted, discovery, other_run>>

\* the scrape command on a usable path: the run starts
MainScrape ==
    \E mode \in Modes, start_date \in Dates \cup {NoDate}, end_date \in Dates \cup {NoDate} :
        /\ \A m \in Modes : ~running[m]
        /\ LoadRun(mode, start_date, end_date)
        /\ exited' = NoExit
        /\ UNCHANGED <<server, documents, clock, claims_files, xml_files, crashes, conn,
                       rerun, file_locks, request, schema, dates_table, extraction,
                       interrupted, discovery, other_run>>

\* a loop over the futures that lets what future.result() raises pass
LoopCaughtNever(where) == FALSE

\* try: processed_count += future.result() / except Exception as e: logged
LoopCaught(where) == where = "raised"

\* the exit status of the scrape command when every future has completed
ScrapeExitCode(positions) ==
    IF \E k \in DOMAIN positions : positions[k] = "raised" /\ ~LoopCaught(positions[k])
    THEN 1 ELSE 0

\* every future completed: the run returns and the process exits
MainScrapeExit ==
    \E mode \in Modes :
        /\ running[mode]
        /\ \A k \in DOMAIN pc[mode] : pc[mode][k] \in Terminal
        /\ running' = [running EXCEPT ![mode] = FALSE]
        /\ pending_docs' = [pending_docs EXCEPT ![mode] = <<>>]
        /\ pc' = [pc EXCEPT ![mode] = <<>>]
        /\ exited' = [NoExit EXCEPT !.command = "scrape", !.code = ScrapeExitCode(pc[mode])]
        /\ UNCHANGED <<server, documents, clock, claims_files, xml_files, crashes, conn,
                       rerun, file_locks, request, schema, dates_table, extraction,
                       interrupted, discovery, other_run>>

\* the stats command on a usable path
MainStats ==
    /\ \A m \in Modes : ~running[m]
    /\ exited' = [NoExit EXCEPT !.command = "stats", !.stats = get_stats(documents)]
    /\ UNCHANGED <<server, documents, clock, running, pending_docs, pc, claims_files,
                   xml_files, crashes, conn, rerun, file_locks, request, schema,
                   dates_table, extraction, interrupted, discovery, other_run>>

----------------------------------------------------------------------------
(* EPODatabase.mark_document_processed statement by statement, called by   *)
(* two threads (or processes) at a time, each on a connection of its own.  *)
(* conn[p].batch holds the arguments of the call of p.  SQLite has one     *)
(* write lock for the database file: the UPDATE of a connection waits      *)
(* while another connection holds it, and raises "database is locked" when *)
(* the timeout of sqlite3.connect (5 seconds) expires.                     *)
(***************************************************************************)

\* the urls the calls are made with: "u3" is never stored
MarkUrls == StoreUrls \cup {"u3"}

\* the arguments of the call in progress on the connection of p
CallOf(p) == conn[p].batch[1]

\* with sqlite3.connect(self.db_path) as conn, for a url that no call in
\* progress targets
MarkConnect(p) ==
    \E url \in MarkUrls : \E mode \in Modes : \E call \in MarkCalls(mode) :
        /\ conn[p].at = "closed"
        /\ \A q \in Procs \ {p} : conn[q].at # "closed" => CallOf(q).url # url
        /\ \A r \in documents : r.url = url => StatusOf(r, mode) = "pending"
        /\ conn' = [conn EXCEPT ![p] =
               [IdleConn EXCEPT !.at = "update",
                                !.batch = <<[url |-> url, mode |-> mode,
                                             status |-> call[1], error |-> call[2]]>>]]
        /\ UNCHANGED <<server, documents, clock, running, pending_docs, pc,
                       claims_files, xml_files, crashes, others>>

\* conn.execute(query, (status, error, url)): the write lock is taken
MarkUpdate(p) ==
    /\ conn[p].at = "update"
    /\ \A q \in Procs \ {p} : ~conn[q].writing
    /\ conn' = [conn EXCEPT ![p].at = "commit", ![p].writing = TRUE]
    /\ UNCHANGED <<server, documents, clock, running, pending_docs, pc,
                   claims_files, xml_files, crashes, others>>

\* the UPDATE waited for the write lock until the timeout: OperationalError
\* leaves mark_document_processed
MarkLocked(p) ==
    /\ conn[p].at = "update"
    /\ \E q \in Procs \ {p} : conn[q].writing
    /\ conn' = [conn EXCEPT ![p] = IdleConn]
    /\ UNCHANGED <<server, documents, clock, running, pending_docs, pc,
                   claims_files, xml_files, crashes, others>>

\* leaving the with block: commit
MarkCommit(p) ==
    /\ conn[p].at = "commit"
    /\ documents' = mark_document_processed(documents, CallOf(p).url, CallOf(p).mode,
                        CallOf(p).status, CallOf(p).error, clock)
    /\ conn' = [conn EXCEPT ![p] = IdleConn]
    /\ UNCHANGED <<server, clock, running, pending_docs, pc, claims_files, xml_files,
                   crashes, others>>

MarkConnectAny == \E p \in Procs : MarkConnect(p)

MarkUpdateAny == \E p \in Procs : MarkUpdate(p)

MarkLockedAny == \E p \in Procs : MarkLocked(p)

MarkCommitAny == \E p \in Procs : MarkCommit(p)

----------------------------------------------------------------------------
(* The dates table written by add_dates alone. *)

\* the lists add_dates is called with: up to MaxBatch dates, a date may repeat
DateLists == UNION {[1..n -> Dates] : n \in 1..MaxBatch}

\* db.add_dates(dates) with any list
AddDates ==
    \E list \in DateLists :
        /\ dates_table' = add_dates(dates_table, list, clock)
        /\ UNCHANGED <<server, documents, clock, running, pending_docs, pc, claims_files,
                       xml_files, crashes, conn, rerun, file_locks, request, schema,
                       exited, extraction, interrupted, discovery, other_run>>

----------------------------------------------------------------------------
(* KeyboardInterrupt in a scrape run.  The interrupt is raised in the main *)
(* thread, inside the loop over as_completed(futures); it is not an        *)
(* Exception, so the except clause of the loop lets it pass and it leaves  *)
(* the with block of the ThreadPoolExecutor, whose __exit__ calls          *)
(* shutdown(wait=True): the pool threads go on taking the submitted        *)
(* documents until none is left, and then the exception leaves the run.    *)
(***************************************************************************)

\* the operator interrupts the run (Ctrl-C)
Interrupt ==
    \E mode \in Modes :
        /\ running[mode]
        /\ ~interrupted[mode]
        /\ interrupted' = [interrupted EXCEPT ![mode] = TRUE]
        /\ UNCHANGED <<server, documents, clock, running, pending_docs, pc, claims_files,
                       xml_files, crashes, conn, rerun, file_locks, request, schema,
                       dates_table, exited, extraction, discovery, other_run>>

\* a run that was not interrupted returns
ScrapeReturn ==
    /\ \A m \in Modes : ~interrupted[m]
    /\ ScrapeEnd

\* executor.shutdown(wait=True) returns when every submitted document has
\* been processed; KeyboardInterrupt leaves scrape_claims / scrape_xml
ExecutorShutdown ==
    \E mode \in Modes :
        /\ running[mode]
        /\ interrupted[mode]
        /\ \A k \in DOMAIN pc[mode] : pc[mode][k] \in Terminal
        /\ running' = [running EXCEPT ![mode] = FALSE]
        /\ pending_docs' = [pending_docs EXCEPT ![mode] = <<>>]
        /\ pc' = [pc EXCEPT ![mode] = <<>>]
        /\ interrupted' = [interrupted EXCEPT ![mode] = FALSE]
        /\ UNCHANGED <<server, documents, clock, claims_files, xml_files, crashes, conn,
                       rerun, file_locks, request, schema, dates_table, exited,
                       extraction, discovery, other_run>>

----------------------------------------------------------------------------
(* Specifications. *)

NoRerun == [range |-> <<NoDate, NoDate>>, ended |-> 0]


\* EPODatabase(db_path) on a path that holds no database yet: init_db creates
\* the empty tables; no output file exists; the server lists what it lists
Fresh ==
    /\ server \in Listings
    /\ documents = {}
    /\ clock = 1
    /\ running = [m \in Modes |-> FALSE]
    /\ pending_docs = [m \in Modes |-> <<>>]
    /\ pc = [m \in Modes |-> <<>>]
    /\ claims_files = [d \in Dates |-> <<>>]
    /\ xml_files = {}
    /\ crashes = 0
    /\ conn = [p \in Procs |-> IdleConn]

Init ==
    /\ Fresh
    /\ rerun = NoRerun
    /\ file_locks = NoLocks
    /\ request = NoRequest
    /\ schema = CurrentSchema
    /\ dates_table = {}
    /\ Rest

\* the store's methods called with any arguments; the server is not contacted
InitStore == Init /\ server[<<1, 0>>] = <<>>

Workers ==
    \/ Fetch
    \/ MarkFetchFailed
    \/ MarkNoClaims
    \/ WriteClaims
    \/ XmlMkdirError
    \/ WriteXml
    \/ WriteError
    \/ MarkCompleted
    \/ MarkWriteFailed

\* discover and scrape commands run one after another; a scrape run may be killed
Next ==
    \/ Discover
    \/ ScrapeStart
    \/ Workers
    \/ ScrapeEnd
    \/ Crash

Spec == Init /\ [][Next]_vars

\* a claims run and an xml run side by side on one store, each run to its end
NextModes ==
    \/ Discover
    \/ ScrapeStartBeside
    \/ Workers
    \/ ScrapeEnd

SpecModes == Init /\ [][NextModes]_vars

\* the tracking store alone: its writes in any order, time passing
NextStore ==
    \/ AddDocuments
    \/ MarkDocumentProcessed
    \/ Tick

SpecStore == InitStore /\ [][NextStore]_vars

\* two discover commands inside add_documents at the same time
NextDiscover ==
    \/ ConnectAny
    \/ SelectMaxAny
    \/ InsertAny
    \/ LockedAny
    \/ CommitAny

SpecDiscover == InitStore /\ [][NextDiscover]_vars

\* one scrape claims command repeated, discover commands between its runs
InitRerun ==
    /\ Fresh
    /\ rerun \in [range : (Dates \cup {NoDate}) \X (Dates \cup {NoDate}), ended : {0}]
    /\ file_locks = NoLocks
    /\ request = NoRequest
    /\ schema = CurrentSchema
    /\ dates_table = {}
    /\ Rest

ClaimsWorkers ==
    \/ Fetch
    \/ MarkFetchFailed
    \/ MarkNoClaims
    \/ WriteClaims
    \/ WriteError
    \/ MarkCompleted
    \/ MarkWriteFailed

NextRerun ==
    \/ DiscoverAnew
    \/ ScrapeClaimsAgain
    \/ ClaimsWorkers
    \/ ScrapeClaimsEnd

SpecRerun == InitRerun /\ [][NextRerun]_vars

\* scrape claims runs with the write of a line taken statement by statement
NextLock ==
    \/ Discover
    \/ ScrapeClaimsStart
    \/ Fetch
    \/ MarkFetchFailed
    \/ MarkNoClaims
    \/ EnterRegistry
    \/ LookupLock
    \/ AcquireFileLock
    \/ OpenFile
    \/ OpenError
    \/ WriteChunk
    \/ WriteRest
    \/ CloseFile
    \/ MarkCompleted
    \/ MarkWriteFailed
    \/ ScrapeEnd

SpecLock == Init /\ [][NextLock]_vars

\* the store opened on a file that an older program may have written, then
\* discover and scrape xml commands
InitMigrate ==
    /\ \E db \in StoredFiles :
           /\ documents = db.rows
           /\ schema = [columns |-> db.columns, indexes |-> db.indexes, opened |-> "no"]
    /\ server = [d \in Dates |-> IF d = <<0, 9>> THEN <<"u1", "u2">> ELSE <<>>]
    /\ clock = 2
    /\ running = [m \in Modes |-> FALSE]
    /\ pending_docs = [m \in Modes |-> <<>>]
    /\ pc = [m \in Modes |-> <<>>]
    /\ claims_files = [d \in Dates |-> <<>>]
    /\ xml_files = {}
    /\ crashes = 0
    /\ conn = [p \in Procs |-> IdleConn]
    /\ rerun = NoRerun
    /\ file_locks = NoLocks
    /\ request = NoRequest
    /\ dates_table = {NewDate(r.date, r.discovered_at) : r \in documents}
    /\ Rest

NextMigrate ==
    \/ OpenStore
    \/ DiscoverOpened
    \/ ScrapeXmlOpened
    \/ Fetch
    \/ MarkFetchFailed
    \/ XmlMkdirError
    \/ WriteXml
    \/ WriteError
    \/ MarkCompleted
    \/ MarkWriteFailed
    \/ ScrapeEnd

SpecMigrate == InitMigrate /\ [][NextMigrate]_vars

\* the commands run as processes, one after another
NextMain ==
    \/ MainUnusable
    \/ MainDiscover
    \/ MainScrape
    \/ Workers
    \/ MainScrapeExit
    \/ MainStats

SpecMain == InitStore /\ [][NextMain]_vars

\* calls of _get_response, one after another, against any server behaviour
NextFetch ==
    \/ GetResponse
    \/ Attempt
    \/ Received

SpecFetch == InitStore /\ [][NextFetch]_vars

\* two callers inside mark_document_processed at the same time, on the rows
\* discover commands stored
NextMark ==
    \/ Discover
    \/ MarkConnectAny
    \/ MarkUpdateAny
    \/ MarkLockedAny
    \/ MarkCommitAny

SpecMark == InitStore /\ [][NextMark]_vars

\* the writes of the dates table among the other writes of the store, time passing
NextDates ==
    \/ AddDates
    \/ MainDiscover
    \/ MarkDocumentProcessed
    \/ Tick

SpecDates == InitStore /\ [][NextDates]_vars

\* _extract_claims_json called on any body
NextExtract == ExtractClaims

SpecExtract == InitStore /\ [][NextExtract]_vars

\* scrape runs that the operator may interrupt
NextInterrupt ==
    \/ Discover
    \/ ScrapeStart
    \/ Workers
    \/ Interrupt
    \/ ScrapeReturn
    \/ ExecutorShutdown

SpecInterrupt == InitStore /\ [][NextInterrupt]_vars

\* discover_dates called on any page of links
InitPages ==
    /\ Fresh
    /\ server[<<1, 0>>] = <<>>
    /\ rerun = NoRerun
    /\ file_locks = NoLocks
    /\ request = NoRequest
    /\ schema = CurrentSchema
    /\ dates_table = {}
    /\ exited = NoExit
    /\ extraction = NoData
    /\ interrupted = NoInterrupt
    /\ other_run = NoRun
    /\ \E page \in Pages : discovery = [NoDiscovery EXCEPT !.page = page]

NextDiscoverDates == DiscoverDates

SpecDiscoverDates == InitPages /\ [][NextDiscoverDates]_vars

\* the discover command step by step, run again and again, killed at any point
NextDiscovery ==
    \/ DiscoverDates
    \/ DiscoverAddDates
    \/ DiscoverDocuments
    \/ DiscoverAddDocuments
    \/ DiscoverKill

SpecDiscovery == Init /\ [][NextDiscovery]_vars

\* two scrape claims processes on one store, each started at any time
NextTwoRuns ==
    \/ Discover
    \/ ScrapeClaimsStart
    \/ ClaimsWorkers
    \/ ScrapeEnd
    \/ OtherScrapeStart
    \/ OtherFetch
    \/ OtherMarkFetchFailed
    \/ OtherMarkNoClaims
    \/ OtherWriteClaims
    \/ OtherWriteError
    \/ OtherMarkCompleted
    \/ OtherMarkWriteFailed
    \/ OtherScrapeEnd

SpecTwoRuns == InitStore /\ [][NextTwoRuns]_vars

\* scrape claims runs with _get_file_lock and the write of a line taken
\* statement by statement
NextRegistry ==
    \/ Discover
    \/ ScrapeClaimsStart
    \/ Fetch
    \/ MarkFetchFailed
    \/ MarkNoClaims
    \/ EnterRegistry
    \/ TestKey
    \/ CreateLock
    \/ ReturnLock
    \/ AcquireFileLock
    \/ OpenFile
    \/ OpenError
    \/ WriteChunk
    \/ WriteRest
    \/ CloseFile
    \/ MarkCompleted
    \/ MarkWriteFailed
    \/ ScrapeEnd

SpecRegistry == Init /\ [][NextRegistry]_vars

----------------------------------------------------------------------------
(* Properties. *)

RowsOfDate(date) == {r \in documents : r.date = date}

Bounds == Dates \cup {NoDate}

\* the urls of a list of documents
UrlsOf(list) == {list[k].url : k \in DOMAIN list}

\* C1: after any sequence of add_documents calls, the doc_index values of the
\* rows of each date are exactly 1..n, n the number of rows of the date: no
\* gap and no duplicate.
C1_ContiguousIndices ==
    \A d \in Dates :
        {r.doc_index : r \in RowsOfDate(d)} = 1..Cardinality(RowsOfDate(d))

\* C2: add_documents is an idempotent insert keyed on url: the store holds one
\* row per url, and whatever list is submitted, every stored row is in the
\* store afterwards with every field as it was, the urls stored afterwards
\* being the stored ones and the submitted ones.
C2_IdempotentInsert ==
    /\ \A r1, r2 \in documents : r1.url = r2.url => r1 = r2
    /\ \A batch \in Batches :
           LET after == add_documents(documents, batch, clock)
           IN /\ documents \subseteq after
              /\ {r.url : r \in after} = {r.url : r \in documents} \cup UrlsOf(batch)
              /\ \A r1, r2 \in after : r1.url = r2.url => r1 = r2

\* a document inserted, after a time, by a list that also named a stored
\* document whose claims track was completed or failed by then
C2_Witness ==
    \E r1, r2 \in documents :
        /\ r1.date = r2.date
        /\ r1.claims_status # "pending"
        /\ r1.doc_index = 1
        /\ r2.doc_index = 3
        /\ r2.discovered_at > r1.claims_processed_at

\* C3: on a store built by add_documents calls that run one after another,
\* every doc_index is a positive integer and no two rows of a date share one.
C3_PositiveUniqueIndex ==
    /\ \A r \in documents : r.doc_index \in Nat \ {0}
    /\ \A r1, r2 \in documents :
           (r1.date = r2.date /\ r1.doc_index = r2.doc_index) => r1 = r2

\* two rows of one date, the second inserted by a later call
C3_Witness ==
    \E r1, r2 \in documents :
        r1 # r2 /\ r1.date = r2.date /\ r2.discovered_at > r1.discovered_at

\* C4: when two add_documents calls interleave on one date with different
\* urls, no two rows of the date end up with the same doc_index.
C4_NoDuplicateIndex ==
    \A r1, r2 \in documents :
        (r1.date = r2.date /\ r1.doc_index = r2.doc_index) => r1 = r2

\* the rows get_pending_documents has to return, stated on the calendar value
\* of the dates
PendingInRange(mode, start_date, end_date) ==
    {r \in documents :
        /\ StatusOf(r, mode) = "pending"
        /\ (start_date # NoDate => DateValue(start_date) <= DateValue(r.date))
        /\ (end_date # NoDate => DateValue(r.date) <= DateValue(end_date))}

\* C5: get_pending_documents(mode, start, end) returns exactly the rows that
\* are pending for the mode and dated within [start, end], each once, with
\* the four selected columns of the row.
C5_ExactlyPendingInRange ==
    \A mode \in Modes, start_date \in Bounds, end_date \in Bounds :
        LET res == get_pending_documents(documents, mode, start_date, end_date)
            due == PendingInRange(mode, start_date, end_date)
        IN /\ {res[k] : k \in DOMAIN res} = {Selected(r) : r \in due}
           /\ Len(res) = Cardinality(due)

\* a row that is not pending for claims, and a pending one of another date
C5_Witness ==
    \E r1, r2 \in documents :
        /\ r1.claims_status # "pending"
        /\ r2.claims_status = "pending"
        /\ r1.date # r2.date

\* C6: the list get_pending_documents returns is ascending by (date, doc_index).
C6_SortedByDateIndex ==
    \A mode \in Modes, start_date \in Bounds, end_date \in Bounds :
        LET res == get_pending_documents(documents, mode, start_date, end_date)
        IN \A i, j \in DOMAIN res :
               i < j =>
                   \/ DateValue(res[i].date) < DateValue(res[j].date)
                   \/ /\ res[i].date = res[j].date
                      /\ res[i].doc_index < res[j].doc_index

\* two pending rows, the one of the earlier date with the larger doc_index
C6_Witness ==
    \E r1, r2 \in documents :
        /\ r1.xml_status = "pending" /\ r2.xml_status = "pending"
        /\ DateValue(r1.date) < DateValue(r2.date)
        /\ r1.doc_index > r2.doc_index

\* the columns of a row that belong to the track of a mode
Track(r, mode) == <<StatusOf(r, mode), ErrorOf(r, mode), ProcessedAtOf(r, mode)>>

\* the columns of a row that belong to no track
Identity(r) == <<r.url, r.date, r.doc_id, r.doc_index, r.discovered_at>>

\* the (url, mode) pairs whose track differs between this state and the next
ChangedTracks ==
    {t \in {r.url : r \in documents} \X Modes :
        \E r \in documents :
            /\ r.url = t[1]
            /\ \A r2 \in documents' : r2.url = r.url => Track(r2, t[2]) # Track(r, t[2])}

\* the worker of pending_docs[mode][k] returns in this step
Returns(mode, k) ==
    /\ k \in DOMAIN pc[mode]
    /\ pc[mode][k] \notin Terminal
    /\ k \in DOMAIN pc'[mode]
    /\ pc'[mode][k] = "done"

\* C7: the two mode tracks are independent. A step changes the track of at
\* most one (url, mode) pair, the one of the worker that returns in it, and
\* leaves the other track of the row, its other columns and every other row
\* as they were; a row that is pending for a mode is returned by
\* get_pending_documents for that mode whatever its status for the other
\* mode, also while a claims run and an xml run interleave.
C7_TracksIndependent ==
    [][/\ \A r \in documents : \E r2 \in documents' : Identity(r2) = Identity(r)
       /\ Cardinality(ChangedTracks) <= 1
       /\ \A t \in ChangedTracks :
              \E k \in DOMAIN pc[t[2]] :
                  Returns(t[2], k) /\ pending_docs[t[2]][k].url = t[1]
       /\ \A mode \in Modes : \A r \in documents' :
              StatusOf(r, mode) = "pending" =>
                  r.url \in UrlsOf(get_pending_documents(documents', mode, NoDate, NoDate))
      ]_vars

\* both runs are in progress, a row is completed for claims and waits in
\* the list of the xml run, still pending for xml
C7_Witness ==
    /\ running["claims"] /\ running["xml"]
    /\ \E r \in documents :
           /\ r.claims_status = "completed"
           /\ r.xml_status = "pending"
           /\ \E k \in DOMAIN pc["xml"] :
                  pending_docs["xml"][k].url = r.url /\ pc["xml"][k] = "queued"
           /\ \E k \in DOMAIN pc["claims"] :
                  pending_docs["claims"][k].url = r.url /\ pc["claims"][k] = "done"

\* the worker of pending_docs[mode][k] calls _get_response in this step
Fetches(mode, k) ==
    /\ k \in DOMAIN pc[mode]
    /\ pc[mode][k] = "queued"
    /\ k \in DOMAIN pc'[mode]
    /\ pc'[mode][k] # "queued"

C9_FailedIsPendingAgain ==
    \A mode \in Modes : \A r \in documents :
        StatusOf(r, mode) = "failed" =>
            r.url \in UrlsOf(get_pending_documents(documents, mode, NoDate, NoDate))

\* C10: in both modes, when the fetch of a document yields a failure, the
\* worker writes no output, its next step marks the row failed for the mode
\* with a non-empty error, and the run goes on: the workers of the other
\* documents stand where they stood.
C10_FetchFailureMarksFailed ==
    [][\A mode \in Modes : \A k \in DOMAIN pc[mode] :
          /\ (Fetches(mode, k) /\ pc'[mode][k] = "no_response") =>
                 /\ claims_files' = claims_files
                 /\ xml_files' = xml_files
          /\ (pc[mode][k] = "no_response" /\ k \in DOMAIN pc'[mode]
                 /\ pc'[mode][k] # "no_response") =>
                 /\ pc'[mode][k] = "done"
                 /\ \E r \in documents' :
                        /\ r.url = pending_docs[mode][k].url
                        /\ StatusOf(r, mode) = "failed"
                        /\ ErrorOf(r, mode) \notin {Null, ""}
                 /\ claims_files' = claims_files
                 /\ xml_files' = xml_files
                 /\ running'[mode]
                 /\ \A j \in DOMAIN pc[mode] \ {k} : pc'[mode][j] = pc[mode][j]
      ]_vars

\* a document's fetch failed and its row is marked, while another document
\* of the run is still being processed
C10_Witness ==
    \E mode \in Modes :
        /\ running[mode]
        /\ \E k, j \in DOMAIN pc[mode] :
               /\ pc[mode][k] = "done"
               /\ \E r \in documents :
                      /\ r.url = pending_docs[mode][k].url
                      /\ StatusOf(r, mode) = "failed"
                      /\ ErrorOf(r, mode) = FetchErrorText
               /\ pc[mode][j] \in {"has_claims", "response"}

\* the row of a loaded document
RowOf(doc) == CHOOSE r \in documents : r.url = doc.url

\* the lines of all claims files
Lines(files) == UNION {{files[d][i] : i \in DOMAIN files[d]} : d \in Dates}

\* C11: in claims mode a fetched document whose tree has no usable patent
\* number or no English claim yields no record; the worker's next step marks
\* its row completed (not failed) with a note, no line is appended to any
\* file, and a row that carries the note is not fetched by any run.
C11_NoClaimsCompleted ==
    [][/\ \A body \in Bodies :
              (/\ body.root = "element"
               /\ \/ Strip(body.country) \o Strip(body.number) \o Strip(body.kind) = <<>>
                  \/ \A i \in DOMAIN body.claims : body.claims[i].lang # "en")
                  => /\ _extract_claims_json(body) = NoRecord
                     /\ ClaimsOutcome(body) = "no_claims"
       /\ \A k \in DOMAIN pc["claims"] :
              /\ (Fetches("claims", k) /\ pc'["claims"][k] = "no_claims") =>
                     claims_files' = claims_files
              /\ (pc["claims"][k] = "no_claims" /\ k \in DOMAIN pc'["claims"]
                     /\ pc'["claims"][k] # "no_claims") =>
                     /\ pc'["claims"][k] = "done"
                     /\ \E r \in documents' :
                            /\ r.url = pending_docs["claims"][k].url
                            /\ r.claims_status = "completed"
                            /\ r.claims_error \notin {Null, ""}
                     /\ claims_files' = claims_files
              /\ Fetches("claims", k) =>
                     RowOf(pending_docs["claims"][k]).claims_error # NoClaimsNote
      ]_vars

\* a row completed with the note and without a line, left out of the list of
\* a later claims run that has gone on to another document
C11_Witness ==
    /\ running["claims"]
    /\ \E r \in documents :
           /\ r.claims_status = "completed"
           /\ r.claims_error = NoClaimsNote
           /\ r.url \notin UrlsOf(pending_docs["claims"])
           /\ r.url \notin Lines(claims_files)
    /\ \E k \in DOMAIN pc["claims"] : pc["claims"][k] \notin {"queued", "done"}

\* C12: when scrape claims is run again after a run of the same command
\* ended, with no discovery in between, no step of the later run appends an
\* output line or changes the claims status of a row.
C12_SecondRunChangesNothing ==
    [][(running["claims"] /\ rerun.ended >= 1) =>
           /\ claims_files' = claims_files
           /\ \A r \in documents :
                  \E r2 \in documents' :
                      r2.url = r.url /\ r2.claims_status = r.claims_status
      ]_vars

\* C13: whatever the point at which a scrape claims run is killed, and however
\* it is re-invoked, no document has more than one line in its date's file.
C13_NoDuplicateLine ==
    \A d \in Dates : \A i, j \in DOMAIN claims_files[d] :
        i # j => claims_files[d][i] # claims_files[d][j]

\* the rows of a date whose claims were extracted and written
Extracted(d) ==
    {r \in documents :
        r.date = d /\ r.claims_status = "completed" /\ r.claims_error = Null}

Writers(d) ==
    {k \in DOMAIN pc["claims"] :
        pc["claims"][k] \in {"open", "half", "flushed"} /\ pending_docs["claims"][k].date = d}

\* the chunks of a file are whole lines: each line's two chunks, one after the other
WholeLines(file) ==
    /\ Len(file) % 2 = 0
    /\ \A i \in DOMAIN file : i % 2 = 1 => file[i] = file[i + 1]

\* C15: within one scrape claims run at most one worker is between opening
\* and closing a given date's file, and the file is made of whole lines: a
\* line that is being written is the last of the file and no other chunk
\* enters it.
C15_AppendsExclusive ==
    \A d \in Dates :
        /\ Cardinality(Writers(d)) <= 1
        /\ IF \E k \in Writers(d) : pc["claims"][k] = "half"
           THEN /\ claims_files[d] # <<>>
                /\ WholeLines(SubSeq(claims_files[d], 1, Len(claims_files[d]) - 1))
                /\ \E k \in Writers(d) :
                       claims_files[d][Len(claims_files[d])] = pending_docs["claims"][k].url
           ELSE WholeLines(claims_files[d])

\* one worker has written half of its line while another worker of the same
\* date, given the same lock, waits for it
C15_Witness ==
    \E k, j \in DOMAIN pc["claims"] :
        /\ pc["claims"][k] = "half"
        /\ pc["claims"][j] = "has_lock"
        /\ pending_docs["claims"][k].date = pending_docs["claims"][j].date
        /\ file_locks.lock[k] = file_locks.lock[j]

\* C16: on a store that was opened, be it upgraded in place from an older
\* table, and filled by add_documents, no two documents of a date have the
\* same doc_index, and no xml file written for a document is replaced by the
\* file of another document.
C16_DistinctXmlPaths ==
    [][/\ schema.opened = "yes" =>
              \A r1, r2 \in documents :
                  (r1.date = r2.date /\ r1.doc_index = r2.doc_index) => r1.url = r2.url
       /\ \A f \in xml_files : f \in xml_files'
      ]_vars

\* C17: opening the store on a file whose documents table has the older
\* columns (status, error_message, processed_at, no xml_* and no doc_index)
\* succeeds, leaves the table with the current columns, and keeps every row
\* with its recorded status.
C17_OldSchemaUpgraded ==
    [][(schema.columns = OldColumns /\ schema.opened = "no" /\ schema' # schema) =>
           /\ schema'.opened = "yes"
           /\ schema'.columns = CurrentColumns
           /\ Cardinality(documents') = Cardinality(documents)
           /\ \A r \in documents :
                  \E r2 \in documents' :
                      /\ r2.url = r.url /\ r2.date = r.date /\ r2.doc_id = r.doc_id
                      /\ r2.claims_status = r.status
                      /\ r2.claims_error = r.error_message
                      /\ r2.claims_processed_at = r.processed_at
      ]_vars

\* C18: _get_response re-attempts a failed request: it yields the response
\* when one of the first 10 attempts would succeed, and reports failure only
\* after 10 attempts have failed.
C18_RetriesUpToBound ==
    request.at = "returned" =>
        /\ request.result = "response"
               <=> \E n \in 1..Tries : Meets(request.script, n) = "ok"
        /\ request.result = "None" => request.attempts = Tries

\* C19: _get_response never raises past its boundary: whatever error each
\* attempt meets, the call makes at most 10 attempts and returns a response or
\* None.
C19_NeverRaises ==
    /\ request.at # "raised"
    /\ request.attempts <= Tries
    /\ request.at = "calling" => request.attempts < Tries
    /\ request.at = "returned" => request.result \in {"response", "None"}

\* a call returned None after an attempt that met a timeout
C19_Witness ==
    /\ request.at = "returned"
    /\ request.result = "None"
    /\ request.attempts >= 1
    /\ Meets(request.script, request.attempts) = "Timeout"

\* a body that is not a patent document: no tree comes out of it, or the
\* root of the tree lacks country, doc-number and kind
Malformed(body) ==
    \/ body.root # "element"
    \/ body.country \o body.number \o body.kind = <<>>

\* C20: in claims mode a malformed body counts as a document without record:
\* the extraction of every such body ends without exception and without
\* record, no claims worker leaves process_document by an exception, and the
\* worker that found no record marks the row completed.
C20_MalformedCompleted ==
    [][/\ \A body \in Bodies : Malformed(body) => ClaimsOutcome(body) = "no_claims"
       /\ \A k \in DOMAIN pc'["claims"] : pc'["claims"][k] # "raised"
       /\ \A k \in DOMAIN pc["claims"] :
              (pc["claims"][k] = "no_claims" /\ k \in DOMAIN pc'["claims"]
                  /\ pc'["claims"][k] # "no_claims") =>
                  \E r \in documents' :
                      r.url = pending_docs["claims"][k].url /\ r.claims_status = "completed"
      ]_vars

\* where a worker stands when it is about to produce the document's output
BeforeOutput(mode) == IF mode = "claims" THEN "has_claims" ELSE "response"

\* C21: a local write error while a document's output is produced (the
\* append to the date file; the creation of the date subdirectory or the
\* write of the xml file) marks the row failed for the mode with the
\* exception text: a worker about to produce the output either writes it or
\* stands in the except branch, never leaves by an exception, and from the
\* except branch its step records 'failed' and the text on its row.
C21_WriteErrorMarksFailed ==
    [][\A mode \in Modes : \A k \in DOMAIN pc[mode] :
           /\ (pc[mode][k] = BeforeOutput(mode) /\ k \in DOMAIN pc'[mode]) =>
                  pc'[mode][k] \in {BeforeOutput(mode), "written", "write_error"}
           /\ (pc[mode][k] = "write_error" /\ k \in DOMAIN pc'[mode]
                  /\ pc'[mode][k] # "write_error") =>
                  \E r \in documents' :
                      /\ r.url = pending_docs[mode][k].url
                      /\ StatusOf(r, mode) = "failed"
                      /\ ErrorOf(r, mode) = "OSError"
      ]_vars

\* the files at {output_root}/{date}/{doc_index}.xml
FilesAt(date, doc_index) == {f \in xml_files : f.date = date /\ f.doc_index = doc_index}

\* C22: whenever a row's xml status is completed, one file stands at
\* {date}/{doc_index}.xml and holds the bytes of the response fetched for the
\* row's document; so the status is completed only once the file is written.
C22_CompletedXmlHasFile ==
    \A r \in documents :
        r.xml_status = "completed" =>
            /\ Cardinality(FilesAt(r.date, r.doc_index)) = 1
            /\ \A f \in FilesAt(r.date, r.doc_index) : f.content = r.url

\* two documents of one date are completed in xml mode, the second by a run
\* started after an earlier run was killed
C22_Witness ==
    /\ crashes > 0
    /\ \E r1, r2 \in documents :
           /\ r1.url # r2.url
           /\ r1.date = r2.date
           /\ r1.xml_status = "completed"
           /\ r2.xml_status = "completed"

\* C23: the process exits non-zero when discover finds zero dates, and then
\* writes no row to the dates and documents tables, or when the store path
\* is unusable; it exits zero otherwise, a discover that stores no document
\* and a scrape with nothing pending included.
C23_ExitStatus ==
    [][exited' # exited =>
           /\ exited'.command \in Commands =>
                  (exited'.code # 0 <=>
                      \/ ~exited'.usable
                      \/ exited'.command = "discover" /\ exited'.found = 0)
           /\ (exited'.command = "discover" /\ exited'.found = 0) =>
                  (dates_table' = dates_table /\ documents' = documents)
      ]_vars

\* a discover command found a date and no document, and a scrape command
\* that found nothing pending has exited
C23_Witness ==
    /\ dates_table # {}
    /\ documents = {}
    /\ exited.command = "scrape"
    /\ exited.code = 0

\* the workers of the mode that have ended with a fault: an exception that
\* left process_document, or a row marked failed
Faulted(mode) ==
    {k \in DOMAIN pc[mode] :
        \/ pc[mode][k] = "raised"
        \/ /\ pc[mode][k] = "done"
           /\ \E r \in documents :
                  r.url = pending_docs[mode][k].url /\ StatusOf(r, mode) = "failed"}

\* C24: a fault while one document is processed never aborts the run: while
\* some document of the run is not processed to its end the run goes on with
\* every document it loaded, whatever faults the others met, and when the run
\* ends, every document was processed and the process exits normally.
C24_FaultNeverAborts ==
    [][\A mode \in Modes :
           running[mode] =>
               /\ (\E k \in DOMAIN pc[mode] : pc[mode][k] \notin Terminal) =>
                      /\ running'[mode]
                      /\ pending_docs'[mode] = pending_docs[mode]
                      /\ \A k \in DOMAIN pc[mode] :
                             pc[mode][k] \in Terminal => pc'[mode][k] = pc[mode][k]
               /\ ~running'[mode] =>
                      /\ \A k \in DOMAIN pc[mode] : pc[mode][k] \in Terminal
                      /\ exited'.command = "scrape"
                      /\ exited'.code = 0
      ]_vars

\* in a run of two documents the first worker raised or failed, and the
\* second document is processed after that
C24_Witness ==
    \E mode \in Modes :
        /\ running[mode]
        /\ Len(pending_docs[mode]) = 2
        /\ 1 \in Faulted(mode)
        /\ pc[mode][2] \notin Terminal \cup {"queued"}

\* C25: concurrent calls of mark_document_processed for different urls are
\* safe: a call that has reached its UPDATE does not fail because another
\* call is writing, and when it commits, its row and no other row has
\* changed, to the values of the call; a call whose url is not stored
\* changes nothing.
C25_ConcurrentMarksSafe ==
    [][\A p \in Procs :
           /\ conn[p].at = "update" => conn'[p].at \in {"update", "commit"}
           /\ (conn[p].at = "commit" /\ conn'[p].at = "closed") =>
                  /\ \A r \in documents :
                         r.url # CallOf(p).url => r \in documents'
                  /\ \A r \in documents :
                         r.url = CallOf(p).url =>
                             \E n \in documents' :
                                 /\ n.url = r.url
                                 /\ StatusOf(n, CallOf(p).mode) = CallOf(p).status
                                 /\ ErrorOf(n, CallOf(p).mode) = CallOf(p).error
                  /\ Cardinality(documents') = Cardinality(documents)
      ]_vars

\* the count get_stats reports for a status: a status no row has is not reported
Reported(stats, status) == IF status \in DOMAIN stats THEN stats[status] ELSE 0

\* C26: get_stats is read-only and consistent: the stats command changes no
\* row of the documents and dates tables, and for each mode the counts it
\* reports for pending, completed and failed sum to the reported total,
\* which is the number of document rows.
C26_StatsReadOnly ==
    [][(exited' # exited /\ exited'.command = "stats" /\ exited'.usable) =>
           /\ documents' = documents
           /\ dates_table' = dates_table
           /\ \A mode \in Modes :
                  LET stats == IF mode = "claims" THEN exited'.stats.claims
                               ELSE exited'.stats.xml
                  IN /\ Reported(stats, "pending") + Reported(stats, "completed")
                            + Reported(stats, "failed") = stats["total"]
                     /\ stats["total"] = Cardinality(documents)
      ]_vars

\* the stats command ran on a store with a completed and a failed row of one
\* mode and a pending row of the other
C26_Witness ==
    /\ exited.command = "stats"
    /\ exited.usable
    /\ Reported(exited.stats.claims, "completed") = 1
    /\ Reported(exited.stats.claims, "failed") = 1
    /\ Reported(exited.stats.xml, "pending") > 0

\* the dates that have a row in the dates table
StoredDates == {r.date : r \in dates_table}

\* C27: add_dates is an idempotent insert and date rows are permanent: adding
\* dates that are all stored leaves the dates table as it is, a date has one
\* row however often it is added, and no step of any operation changes or
\* removes a stored row.
C27_DatesInsertedOnce ==
    [][/\ \A list \in DateLists :
              (\A i \in DOMAIN list : list[i] \in StoredDates) =>
                  add_dates(dates_table, list, clock) = dates_table
       /\ \A r \in dates_table : r \in dates_table'
       /\ \A r1, r2 \in dates_table' : r1.date = r2.date => r1 = r2
      ]_vars

\* a discover command that found both dates ran a second after one of them
\* had been stored: the stored row is still the one of the first second
C27_Witness ==
    /\ exited.command = "discover"
    /\ exited.found = 2
    /\ \E r1, r2 \in dates_table : r1.discovered_at = 1 /\ r2.discovered_at = 2

\* the claim-text elements that are children of the claim element
RECURSIVE ChildTexts(_, _)
ChildTexts(claim, i) ==
    IF i > Len(claim.texts) THEN <<>>
    ELSE (IF i \in claim.nested THEN <<>> ELSE <<claim.texts[i]>>)
             \o ChildTexts(claim, i + 1)

\* the text of a claim: the text of each of its claim-text children, with the
\* text nodes of all its descendants, once
OwnText(claim) == Strip(Join(<<"\n">>, Texts(ChildTexts(claim, 1))))

\* the English claims that have a num and a text
Numbered(body) ==
    SelectSeq(EnglishClaims(body),
              LAMBDA c : LStripZeros(c.num) # <<>> /\ OwnText(c) # <<>>)

\* C28: for a document whose root carries country, doc-number and kind and
\* that has an English claims block, _extract_claims_json returns pn equal to
\* country + doc-number + kind and c with one key per claim of the block that
\* has a text, its num without leading zeros, mapped to the trimmed text of
\* that claim (the last such claim when a num repeats).
C28_ExtractsEnglishClaims ==
    LET body == extraction.body
        result == extraction.result
    IN (/\ extraction.called
        /\ body.root = "element"
        /\ body.country # <<>> /\ body.number # <<>> /\ body.kind # <<>>
        /\ Numbered(body) # <<>>) =>
           /\ result.outcome = "record"
           /\ result.pn = body.country \o body.number \o body.kind
           /\ DOMAIN result.c = {LStripZeros(Numbered(body)[i].num) : i \in DOMAIN Numbered(body)}
           /\ \A i \in DOMAIN Numbered(body) :
                  (\A j \in DOMAIN Numbered(body) :
                       j > i => LStripZeros(Numbered(body)[j].num)
                                    # LStripZeros(Numbered(body)[i].num)) =>
                      result.c[LStripZeros(Numbered(body)[i].num)] = OwnText(Numbered(body)[i])

\* C29: doc_index is assigned once and increases per date: no step of
\* add_documents or mark_document_processed changes the doc_index of a stored
\* row (the reads get_pending_documents and get_stats write nothing), and a
\* row that a step inserts has a doc_index greater than every doc_index
\* stored for its date before the step.
C29_IndexAssignedOnce ==
    [][/\ \A r \in documents :
              \E n \in documents' : n.url = r.url /\ n.doc_index = r.doc_index
       /\ \A n \in documents' :
              (\A r \in documents : r.url # n.url) =>
                  \A r \in documents : r.date = n.date => r.doc_index < n.doc_index
      ]_vars

\* a later batch added a row to a date whose stored rows leave a gap below it,
\* and an earlier row of the date has been marked since
C29_Witness ==
    \E r1, r2 \in documents :
        /\ r1.date = r2.date
        /\ r1.doc_index = 1
        /\ r2.doc_index = 3
        /\ r2.discovered_at > r1.discovered_at
        /\ r1.claims_status # "pending"

\* C30: after an interrupt the run starts no new work: a document that no
\* worker had begun to process stays queued until the run is gone, and its
\* row stays as it was.
C30_InterruptStartsNoWork ==
    [][\A mode \in Modes :
           interrupted[mode] =>
               \A k \in DOMAIN pc[mode] :
                   pc[mode][k] = "queued" =>
                       /\ k \in DOMAIN pc'[mode] => pc'[mode][k] = "queued"
                       /\ \A r \in documents :
                              r.url = pending_docs[mode][k].url => r \in documents'
      ]_vars

\* a track at rest: pending without error and timestamp, or completed or
\* failed with its timestamp
ConsistentTrack(r, mode) ==
    \/ Track(r, mode) = <<"pending", Null, NullTime>>
    \/ /\ StatusOf(r, mode) \in {"completed", "failed"}
       /\ ProcessedAtOf(r, mode) # NullTime

\* C31: each mode track of each row is consistent in every state, a killed
\* run included: its status is pending, completed or failed, a pending track
\* has no error and no processed_at, a completed or failed track has its
\* processed_at; and a track changes only by one write that takes it from
\* pending to completed or failed, with its error and timestamp.
C31_TracksConsistent ==
    [][/\ \A r \in documents : \A mode \in Modes : ConsistentTrack(r, mode)
       /\ \A r \in documents' : \A mode \in Modes : ConsistentTrack(r, mode)
       /\ \A r \in documents : \A mode \in Modes :
              \E n \in documents' :
                  /\ n.url = r.url
                  /\ \/ Track(n, mode) = Track(r, mode)
                     \/ /\ Track(r, mode) = <<"pending", Null, NullTime>>
                        /\ StatusOf(n, mode) \in {"completed", "failed"}
      ]_vars

\* after a run was killed, a row has one track failed with its error and
\* the other completed, and another row is still pending in a mode
C31_Witness ==
    /\ crashes > 0
    /\ \E r \in documents :
           /\ r.claims_status = "failed" /\ r.claims_error # Null
           /\ r.xml_status = "completed"
    /\ \E r \in documents : r.claims_status = "pending"

\* a date as the server writes it: two digits that name a day
IsDate(text) ==
    /\ Len(text) = 2
    /\ \A i \in 1..2 : text[i] \in 0..9
    /\ 10 * text[1] + text[2] \in 1..31

\* the listed entries that are dates d with start_date <= d <= end_date, in
\* the order of the page
RECURSIVE DatesWithin(_, _, _)
DatesWithin(links, start_date, end_date) ==
    IF links = <<>> THEN <<>>
    ELSE LET href == Head(links)
             entry == href[Len(href) - 1]
         IN (IF /\ Len(href) >= 2
                /\ IsDate(entry)
                /\ DateValue(start_date) <= DateValue(entry)
                /\ DateValue(entry) <= DateValue(end_date)
             THEN <<entry>> ELSE <<>>) \o DatesWithin(Tail(links), start_date, end_date)

\* C33: discover_dates returns exactly the listed entries that are dates d
\* with start <= d <= end, in the order of the page; every other entry is
\* skipped.
C33_KeepsDatesInRange ==
    discovery.at = "dates" =>
        discovery.dates = DatesWithin(discovery.page, discovery.start_date, discovery.end_date)

\* the documents of a date in the list handed to add_documents
FoundOf(date) == SelectSeq(discovery.all_documents, LAMBDA doc : doc.date = date)

\* C32: a date whose page of documents could not be fetched yields no
\* document and does not stop the discovery: the list handed to
\* add_documents holds the page's documents of every date that was fetched,
\* they are stored when the command is done, and every date discovered, the
\* failed ones included, is in the dates table.
C32_FailedDateYieldsNothing ==
    /\ discovery.at \in {"found", "done"} =>
           \A k \in DOMAIN discovery.dates :
               LET date == discovery.dates[k]
               IN /\ date \in StoredDates
                  /\ date \notin discovery.fetched => FoundOf(date) = <<>>
                  /\ date \in discovery.fetched =>
                         FoundOf(date) = [i \in 1..Len(Listing(date)) |->
                                              Doc(Listing(date)[i], date)]
    /\ discovery.at = "done" =>
           \A date \in discovery.fetched : \A i \in 1..Len(Listing(date)) :
               \E r \in documents : r.url = Listing(date)[i] /\ r.date = date

\* a discover command is done: the page of a date that lists a document was
\* not fetched, the document of the other date is stored
C32_Witness ==
    /\ discovery.at = "done"
    /\ \E failed \in Dates, date \in discovery.fetched :
           /\ failed \in {discovery.dates[k] : k \in DOMAIN discovery.dates}
           /\ failed \notin discovery.fetched
           /\ Listing(failed) # <<>>
           /\ failed \in StoredDates
           /\ \A r \in documents : r.date # failed
           /\ \E r \in documents : r.date = date

\* C34: the date of every row of the documents table is in the dates table,
\* in every state of the store, also when the discover command is killed
\* between add_dates and add_documents.
C34_DatesBeforeDocuments ==
    \A r \in documents : r.date \in StoredDates

\* a discover command was killed after add_dates and before add_documents:
\* its dates are stored, the documents it found are not
C34_Witness ==
    /\ discovery.at = "killed"
    /\ discovery.all_documents # <<>>
    /\ \A k \in DOMAIN discovery.dates : discovery.dates[k] \in StoredDates
    /\ \E k \in DOMAIN discovery.all_documents :
           \A r \in documents : r.url # discovery.all_documents[k].url

\* the worker stands inside `with lock:`
InCritical(k) == pc["claims"][k] \in {"locked", "open", "half", "flushed"}

\* C35: the registry lock is held only by a worker inside _get_file_lock, so
\* never by a worker that opens or writes a file; the locks held are those
\* of the workers that stand inside their `with lock:` block, one append
\* each; and workers of different dates have different locks, so that
\* neither waits for the other.
C35_LocksHeldBriefly ==
    /\ \A k \in DOMAIN pc["claims"] :
           file_locks.global = k <=> pc["claims"][k] = "in_registry"
    /\ file_locks.global # 0 => file_locks.global \in DOMAIN pc["claims"]
    /\ file_locks.held = {file_locks.lock[k] : k \in {j \in DOMAIN pc["claims"] : InCritical(j)}}
    /\ \A k, j \in DOMAIN pc["claims"] :
           /\ pc["claims"][k] = "has_lock" \/ InCritical(k)
           /\ pc["claims"][j] = "has_lock" \/ InCritical(j)
           /\ pending_docs["claims"][k].date # pending_docs["claims"][j].date
           => file_locks.lock[k] # file_locks.lock[j]

\* two workers of different dates have their files open at the same time,
\* one of them in the middle of its line, and no worker holds the registry
\* lock
C35_Witness ==
    \E k, j \in DOMAIN pc["claims"] :
        /\ pending_docs["claims"][k].date # pending_docs["claims"][j].date
        /\ pc["claims"][k] = "half"
        /\ pc["claims"][j] \in {"open", "half"}
        /\ {file_locks.lock[k], file_locks.lock[j]} \subseteq file_locks.held
        /\ file_locks.global = 0

\* C36: when the fetch of a document failed, the step that marks its row
\* records the error reason "fetch error" on the track of the mode.
C36_FetchErrorReason ==
    [][\A mode \in Modes : \A k \in DOMAIN pc[mode] :
           (/\ pc[mode][k] = "no_response"
            /\ k \in DOMAIN pc'[mode]
            /\ pc'[mode][k] = "done")
           => \E r \in documents' :
                  /\ r.url = pending_docs[mode][k].url
                  /\ StatusOf(r, mode) = "failed"
                  /\ ErrorOf(r, mode) = "fetch error"
      ]_vars

\* C37: when a scrape run that was not killed ends, every row it loaded as
\* pending is completed or failed in its mode.
C37_NoLoadedRowLeftPending ==
    [][\A mode \in Modes :
           (running[mode] /\ ~running'[mode] /\ crashes' = crashes)
           => \A k \in DOMAIN pending_docs[mode] :
                  \E r \in documents' :
                      /\ r.url = pending_docs[mode][k].url
                      /\ StatusOf(r, mode) \in {"completed", "failed"}
      ]_vars

\* the documents a process has fetched in its run, by the positions of its workers
FetchedBy(docs, at) == {docs[k].url : k \in {j \in DOMAIN at : at[j] # "queued"}}

\* the file holds no line twice
NoLineTwice(file) == \A i, j \in DOMAIN file : file[i] = file[j] => i = j

\* C38: with two scrape claims processes running at the same time on one
\* store, no document is fetched by both, no document's line is written
\* twice, and a track that is completed or failed is not written again.
C38_ExactlyOnceAcrossRuns ==
    [][/\ (FetchedBy(pending_docs'["claims"], pc'["claims"])
              \cap FetchedBy(other_run'.pending_docs, other_run'.pc)) = {}
       /\ \A d \in Dates : NoLineTwice(claims_files'[d])
       /\ \A r \in documents : \A n \in documents' :
              (n.url = r.url /\ Track(n, "claims") # Track(r, "claims"))
              => r.claims_status = "pending"
      ]_vars

\* the dates that have an entry in the registry
Keys == {d \in Dates : file_locks.registry[d] # 0}

\* C39: within one scraper instance _get_file_lock returns, for a date key,
\* the lock the registry holds for it, the same on every call, also when
\* workers ask for the key for the first time together: the number of locks
\* created is the number of keys in the registry, no two keys have the same
\* lock, and no step replaces or removes an entry while the instance lives.
C39_OneLockPerKey ==
    [][/\ file_locks.created = Cardinality(Keys)
       /\ \A d, e \in Keys : file_locks.registry[d] = file_locks.registry[e] => d = e
       /\ \A k \in DOMAIN pc["claims"] :
              (k \in DOMAIN file_locks.lock /\ file_locks.lock[k] # 0)
              => file_locks.lock[k] = file_locks.registry[pending_docs["claims"][k].date]
       /\ (running["claims"] /\ pc'["claims"] # <<>>)
              => \A d \in Keys : file_locks'.registry[d] = file_locks.registry[d]
      ]_vars

\* two workers of one date asked for its key before either had it; one lock
\* was created and both were given it
C39_Witness ==
    \E k, j \in DOMAIN pc["claims"] :
        /\ k # j
        /\ pending_docs["claims"][k].date = pending_docs["claims"][j].date
        /\ pc["claims"][k] = "has_lock"
        /\ pc["claims"][j] = "has_lock"
        /\ file_locks.lock[k] # 0
        /\ file_locks.lock[k] = file_locks.lock[j]
        /\ file_locks.created = 1

====
